---- MODULE Spec2Model ----
(***************************************************************************)
(* CorroSight: girth-weld alignment, anomaly matching and growth scoring.  *)
(*                                                                         *)
(* Numbers are exact scaled integers:                                      *)
(*   distances     tenths of a foot          (1000.2 ft  -> 10002)         *)
(*   clock_hours   half hours                (3.0 h      -> 6)             *)
(*   length/width  half inches               (2 in       -> 4)             *)
(*   depth_pct     whole percent                                           *)
(*   sub-scores    sixtieths  (SubScale)     (1.0        -> 60)            *)
(*   similarity    1/6000     (SimScale)     (0.95       -> 5700)          *)
(*   rounded similarity / confidence   1/10000  (round(x, 4))              *)
(*   rounded growth rates              1/1000   (round(x, 3))              *)
(*   rounded risk score / life         1/10     (round(x, 1))              *)
(* A missing value (NaN / None) is the sentinel NaN.                       *)
(***************************************************************************)
EXTENDS Integers, Sequences, FiniteSets, TLC

VARIABLES
    run_later,      \* match_anomalies argument: the later aligned run (rows)
    run_earlier,    \* match_anomalies argument: the earlier aligned run
    years_between,  \* match_anomalies argument
    assignment,     \* row_ind/col_ind chosen by linear_sum_assignment
    result,         \* dict returned by match_anomalies
    scored,         \* matches after calculate_growth_rates
    pc,             \* position of the pairwise pipeline
    runs,           \* year -> raw run handed to the aligner
    gw_alignment,   \* girth-weld alignment table
    corrected_runs, \* year -> aligned run (or NoValue)
    apc,            \* position of the aligner
    align_error,    \* exception raised by the aligner (or NoValue)
    mr_runs,        \* year -> aligned run handed to run_full_analysis
    mr_results,     \* dict returned by run_full_analysis (or NoValue)
    cache,          \* server.py: the global result cache
    target_year,    \* predict_future_inspection argument
    prediction,     \* dict returned by predict_future_inspection (or NoValue)
    mpc,            \* position of the multi-run pipeline
    pipeline_progress, \* server.py: status of the background re-run
    req,            \* /api/run-pipeline request -> position of its handler
    bg,             \* background thread -> position of _run_pipeline_background
    reader,         \* a reading endpoint: position and the values it has read
    config,         \* config.py: the weights and tolerances the process imports
    boot,           \* server.py startup(): position, error and match results
    dash_matches,   \* compute_integrity_dashboard: the selected matches frame
    dash_runs,      \* compute_integrity_dashboard: year -> corrected run
    segments,       \* list returned by segment_risk_analysis (or NoValue)
    interactions,   \* list returned by interaction_assessment (or NoValue)
    dpc             \* position of compute_integrity_dashboard

vars == <<run_later, run_earlier, years_between, assignment, result, scored, pc,
          runs, gw_alignment, corrected_runs, apc, align_error,
          mr_runs, mr_results, cache, target_year, prediction, mpc,
          pipeline_progress, req, bg, reader,
          config, boot, dash_matches, dash_runs, segments, interactions, dpc>>

matchVars == <<run_later, run_earlier, years_between, assignment, result, scored, pc>>
alignVars == <<runs, gw_alignment, corrected_runs, apc, align_error>>
multiVars == <<mr_runs, mr_results, cache, target_year, prediction, mpc>>
serverVars == <<pipeline_progress, req, bg, reader>>
bootVars == <<config, boot>>
dashVars == <<dash_matches, dash_runs, segments, interactions, dpc>>

----------------------------------------------------------------------------
(* Bounds of the model *)

MaxLater == 3          \* rows of the later run
MaxEarlier == 3        \* rows of the earlier run
MaxSheetRows == 4       \* rows per run handed to the aligner

----------------------------------------------------------------------------
(* Generic helpers *)

NaN == -1000000

IsNaN(x) == x = NaN

Abs(x) == IF x < 0 THEN -x ELSE x

Min(a, b) == IF a <= b THEN a ELSE b

Max(a, b) == IF a >= b THEN a ELSE b

Max_of(S) == CHOOSE x \in S : \A y \in S : y <= x
Min_of(S) == CHOOSE x \in S : \A y \in S : x <= y

NoValue == [none |-> TRUE]

\* round(): n/d to the nearest integer, ties to even (d > 0)
RoundDiv(n, d) ==
    LET q == n \div d
        r == n % d
    IN  IF 2 * r < d THEN q
        ELSE IF 2 * r > d THEN q + 1
        ELSE IF q % 2 = 0 THEN q ELSE q + 1

RECURSIVE SumSeq(_)
SumSeq(s) == IF s = <<>> THEN 0 ELSE Head(s) + SumSeq(Tail(s))

RECURSIVE SetToSeq(_)
\* elements of a finite set of integers in increasing order
SetToSeq(S) ==
    IF S = {} THEN <<>>
    ELSE LET m == CHOOSE x \in S : \A y \in S : x <= y
         IN  <<m>> \o SetToSeq(S \ {m})

Range(s) == {s[i] : i \in DOMAIN s}

----------------------------------------------------------------------------
(* config.py *)

ANOMALY_TYPES ==
    {"Metal Loss", "Cluster", "Metal Loss Manufacturing", "Dent",
     "Seam Weld Manufacturing", "Seam Weld Anomaly", "Seam Weld Dent",
     "Girth Weld Anomaly"}

REFERENCE_TYPES == {"Girth Weld"}

COMPATIBLE_TYPES ==
    [t \in ANOMALY_TYPES |->
        CASE t \in {"Metal Loss", "Cluster"} -> {"Metal Loss", "Cluster"}
          [] t \in {"Metal Loss Manufacturing", "Seam Weld Manufacturing"} ->
                {"Metal Loss Manufacturing", "Seam Weld Manufacturing"}
          [] t \in {"Dent", "Seam Weld Dent"} -> {"Dent", "Seam Weld Dent"}
          [] OTHER -> {t}]

DISTANCE_TOLERANCE_FT == 30     \* 3.0 ft in tenths of a foot
CLOCK_TOLERANCE_HOURS == 2      \* 1.0 h in half hours

WEIGHT_DISTANCE == 35           \* hundredths
WEIGHT_CLOCK == 25
WEIGHT_DEPTH == 20
WEIGHT_DIMENSIONS == 10
WEIGHT_TYPE == 10

HIGH_CONFIDENCE == 85           \* hundredths
MEDIUM_CONFIDENCE == 60
LOW_CONFIDENCE == 40

MAX_PLAUSIBLE_GROWTH_RATE == 5      \* %/yr
WALL_LOSS_REPAIR_THRESHOLD == 80    \* % wall

YEARS_BETWEEN == {8, 7}

SubScale == 60
SimScale == 6000    \* 100 (weights) * SubScale

----------------------------------------------------------------------------
(* data_ingestion.py *)

\* a normalized feature row (the columns the core reads)
Row(jn, dist, clk, depth, len, wid, typ) ==
    [joint_number |-> jn, log_distance_ft |-> dist, corrected_distance |-> dist,
     clock_hours |-> clk, depth_pct |-> depth, length_in |-> len, width_in |-> wid,
     event_type |-> typ,
     is_anomaly |-> typ \in ANOMALY_TYPES,
     is_girth_weld |-> typ \in REFERENCE_TYPES,
     source_row_idx |-> 0]

\* df["source_row_idx"] = df.index  (0-based position in the sheet)
WithSourceIdx(s) == [i \in DOMAIN s |-> [s[i] EXCEPT !.source_row_idx = i - 1]]

\* the rows of a sheet at the positions I, in sheet order
Pick(sheet, I) == LET order == SetToSeq(I) IN [k \in DOMAIN order |-> sheet[order[k]]]

\* the runs made of at most n rows of a sheet
SubSheets(sheet, n) ==
    {WithSourceIdx(Pick(sheet, I)) :
        I \in {J \in SUBSET DOMAIN sheet : Cardinality(J) <= n}}

get_anomalies(df) ==
    SelectSeq(df, LAMBDA r : r.is_anomaly /\ ~IsNaN(r.depth_pct)
                             /\ ~IsNaN(r.log_distance_ft))

----------------------------------------------------------------------------
(* matching.py: clock utilities *)

\* an unknown clock position counted as no distance at all
clock_distance_unknown_near(h1, h2) ==
    IF IsNaN(h1) \/ IsNaN(h2) THEN 0
    ELSE LET diff == Abs(h1 - h2) % 24
         IN  Min(diff, 24 - diff)

\* circular distance on the 12-hour face, in half hours (6.0 h = 12)
clock_distance(h1, h2) ==
    IF IsNaN(h1) \/ IsNaN(h2) THEN 12
    ELSE LET diff == Abs(h1 - h2) % 24
         IN  Min(diff, 24 - diff)

\* 2 - 2*cos(k * 15 deg) in millionths: the squared chord between the
\* (cos, sin) embeddings of two clock positions k half hours apart
ChordSq(k) ==
    CASE k = 0 -> 0
      [] k = 1 -> 68148
      [] k = 2 -> 267949
      [] k = 3 -> 585786
      [] k = 4 -> 1000000
      [] k = 5 -> 1482362
      [] k = 6 -> 2000000
      [] k = 7 -> 2517638
      [] k = 8 -> 3000000
      [] k = 9 -> 3414214
      [] k = 10 -> 3732051
      [] k = 11 -> 3931852
      [] OTHER -> 4000000

\* squared Euclidean distance, in millionths, between clock_to_trig(h1) and
\* clock_to_trig(h2); NaN embeds as the origin (0, 0)
clock_to_trig_sqdist(h1, h2) ==
    IF IsNaN(h1) /\ IsNaN(h2) THEN 0
    ELSE IF IsNaN(h1) \/ IsNaN(h2) THEN 1000000
    ELSE ChordSq(clock_distance(h1, h2))

----------------------------------------------------------------------------
(* matching.py: similarity scoring *)

_safe_diff(a, b) == IF IsNaN(a) \/ IsNaN(b) THEN 3 ELSE Abs(a - b)

\* the asymmetric depth sub-score, in 1/SubScale
DepthScoreSymmetric(d_later, d_earlier) ==
    IF IsNaN(d_later) \/ IsNaN(d_earlier) THEN SubScale \div 2
    ELSE Max(0, SubScale - (SubScale * Abs(d_later - d_earlier)) \div 10)

DepthScore(d_later, d_earlier) ==
    IF IsNaN(d_later) \/ IsNaN(d_earlier) THEN SubScale \div 2
    ELSE LET depth_diff == d_later - d_earlier
         IN  IF depth_diff >= 0
             THEN Max(0, SubScale - (SubScale * depth_diff) \div 30)
             ELSE Max(0, SubScale - (SubScale * Abs(depth_diff)) \div 10)

\* the constants of config.py the matcher imports, as one value
ShippedConfig ==
    [WEIGHT_DISTANCE |-> WEIGHT_DISTANCE, WEIGHT_CLOCK |-> WEIGHT_CLOCK,
     WEIGHT_DEPTH |-> WEIGHT_DEPTH, WEIGHT_DIMENSIONS |-> WEIGHT_DIMENSIONS,
     WEIGHT_TYPE |-> WEIGHT_TYPE,
     DISTANCE_TOLERANCE_FT |-> DISTANCE_TOLERANCE_FT,
     CLOCK_TOLERANCE_HOURS |-> CLOCK_TOLERANCE_HOURS]

\* compute_similarity with the module constants read from cfg;
\* weighted similarity in 1/SimScale
similarity_under(cfg, a_later, a_earlier, years) ==
    LET dist_diff == Abs(a_later.corrected_distance - a_earlier.corrected_distance)
        s_dist == Max(0, SubScale - (SubScale * dist_diff) \div cfg.DISTANCE_TOLERANCE_FT)
        clk_diff == clock_distance(a_later.clock_hours, a_earlier.clock_hours)
        s_clock == Max(0, SubScale
                          - (SubScale * clk_diff) \div (cfg.CLOCK_TOLERANCE_HOURS * 6))
        d_later == a_later.depth_pct
        d_earlier == a_earlier.depth_pct
        s_depth == DepthScore(d_later, d_earlier)
        len_diff == _safe_diff(a_later.length_in, a_earlier.length_in)
        wid_diff == _safe_diff(a_later.width_in, a_earlier.width_in)
        \* (len_diff + wid_diff) / 6.0 with half-inch units
        s_dim == Max(0, SubScale - (SubScale * (len_diff + wid_diff)) \div 12)
        s_type == IF a_later.event_type = a_earlier.event_type
                  THEN SubScale ELSE (7 * SubScale) \div 10
    IN  cfg.WEIGHT_DISTANCE * s_dist + cfg.WEIGHT_CLOCK * s_clock
        + cfg.WEIGHT_DEPTH * s_depth + cfg.WEIGHT_DIMENSIONS * s_dim
        + cfg.WEIGHT_TYPE * s_type

\* weighted similarity in 1/SimScale
compute_similarity(a_later, a_earlier, years) ==
    similarity_under(ShippedConfig, a_later, a_earlier, years)

types_compatible(type_a, type_b) ==
    IF type_a = type_b THEN TRUE
    ELSE LET compat_a == IF type_a \in DOMAIN COMPATIBLE_TYPES
                         THEN COMPATIBLE_TYPES[type_a] ELSE {type_a}
         IN  type_b \in compat_a

----------------------------------------------------------------------------
(* matching.py: candidate generation and cost matrix *)

\* A cost is whole + frac / SimScale, kept as <<whole, frac>> with
\* 0 <= frac < SimScale (exact arithmetic on the float cost matrix)
Cost(whole, frac) == <<whole + frac \div SimScale, frac % SimScale>>

CostAdd(a, b) == Cost(a[1] + b[1], a[2] + b[2])

CostLeq(a, b) == a[1] < b[1] \/ (a[1] = b[1] /\ a[2] <= b[2])

CostLess(a, b) == ~CostLeq(b, a)

LARGE_COST == Cost(1000000, 0)

search_radius == Max(DISTANCE_TOLERANCE_FT, 20)

\* tree.query_ball_point(later_point, r=search_radius) on the
\* (corrected_distance, cos, sin) embedding
query_ball_point(a_l, a_e) ==
    LET dd == a_l.corrected_distance - a_e.corrected_distance
    IN  /\ Abs(dd) <= search_radius
        /\ dd * dd * 10000 + clock_to_trig_sqdist(a_l.clock_hours, a_e.clock_hours)
                <= search_radius * search_radius * 10000

DistanceGate(a_l, a_e) ==
    Abs(a_l.corrected_distance - a_e.corrected_distance) <= DISTANCE_TOLERANCE_FT

ClockGateOff(a_l, a_e) == TRUE

ClockGate(a_l, a_e) ==
    clock_distance(a_l.clock_hours, a_e.clock_hours) <= CLOCK_TOLERANCE_HOURS

TypeGate(a_l, a_e) == types_compatible(a_l.event_type, a_e.event_type)

\* the pair survives the inner loop body down to the cost_matrix assignment
IsCandidate(a_l, a_e) ==
    /\ query_ball_point(a_l, a_e)
    /\ DistanceGate(a_l, a_e)
    /\ ClockGate(a_l, a_e)
    /\ TypeGate(a_l, a_e)

cost_matrix(anom_later, anom_earlier, years) ==
    [i \in DOMAIN anom_later |->
        [j \in DOMAIN anom_earlier |->
            IF IsCandidate(anom_later[i], anom_earlier[j])
            THEN Cost(0, SimScale
                         - compute_similarity(anom_later[i], anom_earlier[j], years))
            ELSE LARGE_COST]]

candidate_counts(anom_later, anom_earlier) ==
    [i \in DOMAIN anom_later |->
        Cardinality({j \in DOMAIN anom_earlier :
                        IsCandidate(anom_later[i], anom_earlier[j])})]

\* total cost of a set of <<i, j>> cells
RECURSIVE TotalCost(_, _)
TotalCost(C, pairs) ==
    IF pairs = {} THEN Cost(0, 0)
    ELSE LET p == CHOOSE q \in pairs : TRUE
         IN  CostAdd(C[p[1]][p[2]], TotalCost(C, pairs \ {p}))

OneToOne(pairs) ==
    \A p, q \in pairs : (p[1] = q[1] \/ p[2] = q[2]) => p = q

\* every row (or column) takes a cell on its own: not one-to-one
AssignmentsPerRow(n, m) ==
    IF n <= m
    THEN {{<<i, f[i]>> : i \in 1..n} : f \in [1..n -> 1..m]}
    ELSE {{<<f[j], j>> : j \in 1..m} : f \in [1..m -> 1..n]}

\* all complete one-to-one assignments of an n x m matrix (min(n, m) cells)
Assignments(n, m) ==
    IF n <= m
    THEN {{<<i, f[i]>> : i \in 1..n} :
            f \in {g \in [1..n -> 1..m] : \A a, b \in 1..n : g[a] = g[b] => a = b}}
    ELSE {{<<f[j], j>> : j \in 1..m} :
            f \in {g \in [1..m -> 1..n] : \A a, b \in 1..m : g[a] = g[b] => a = b}}

\* scipy.optimize.linear_sum_assignment: the minimum-cost complete
\* assignments; which one of several minima is returned is the solver's choice
linear_sum_assignment(C, n, m) ==
    {A \in Assignments(n, m) :
        \A B \in Assignments(n, m) : CostLeq(TotalCost(C, A), TotalCost(C, B))}

----------------------------------------------------------------------------
(* matching.py: confidence model and match record *)

\* factor 3, growth plausibility, in 1/(SimScale * years);
\* growth_rate = diff / years
GrowthPlausibilityNoShrinkPenalty(d_l, d_e, years) ==
    LET unit == SimScale * years
        diff == d_l - d_e
    IN  IF ~IsNaN(d_l) /\ ~IsNaN(d_e) /\ years > 0
        THEN IF diff <= MAX_PLAUSIBLE_GROWTH_RATE * years THEN unit
             ELSE Max(unit \div 5,
                      unit - ((diff - MAX_PLAUSIBLE_GROWTH_RATE * years) * SimScale) \div 10)
        ELSE unit \div 2

GrowthPlausibility(d_l, d_e, years) ==
    LET unit == SimScale * years
        diff == d_l - d_e
    IN  IF ~IsNaN(d_l) /\ ~IsNaN(d_e) /\ years > 0
        THEN IF 0 <= diff /\ diff <= MAX_PLAUSIBLE_GROWTH_RATE * years THEN unit
             ELSE IF diff < 0
                  THEN Max(0, unit \div 2 + (diff * SimScale) \div 10)
                  ELSE Max(unit \div 5,
                           unit - ((diff - MAX_PLAUSIBLE_GROWTH_RATE * years)
                                    * SimScale) \div 10)
        ELSE unit \div 2

\* the unrounded 4-factor confidence in 1/(100 * SimScale * years);
\* each factor is in 1/(SimScale * years)
ConfidenceRaw(similarity, n_candidates, a_later, a_earlier, years) ==
    LET unit == SimScale * years
        f_sim == similarity * years
        f_unique == IF n_candidates <= 1 THEN unit
                    ELSE IF n_candidates = 2 THEN (7 * unit) \div 10
                    ELSE Max((3 * unit) \div 10, unit - (n_candidates * unit) \div 10)
        d_l == a_later.depth_pct
        d_e == a_earlier.depth_pct
        f_plaus == GrowthPlausibility(d_l, d_e, years)
        jn_l == a_later.joint_number
        jn_e == a_earlier.joint_number
        f_joint == IF ~IsNaN(jn_l) /\ ~IsNaN(jn_e)
                   THEN IF jn_l = jn_e THEN unit ELSE (6 * unit) \div 10
                   ELSE unit \div 2
    IN  40 * f_sim + 25 * f_unique + 20 * f_plaus + 15 * f_joint

\* round(confidence, 4), in 1/10000
_compute_confidence(similarity, n_candidates, a_later, a_earlier, years) ==
    RoundDiv(ConfidenceRaw(similarity, n_candidates, a_later, a_earlier, years),
             (SimScale * years) \div 100)

_classify_confidence_swapped(confidence) ==
    IF confidence >= MEDIUM_CONFIDENCE * 100 THEN "HIGH"
    ELSE IF confidence >= LOW_CONFIDENCE * 100 THEN "MEDIUM"
    ELSE "LOW"

_classify_confidence(confidence) ==
    IF confidence >= HIGH_CONFIDENCE * 100 THEN "HIGH"
    ELSE IF confidence >= MEDIUM_CONFIDENCE * 100 THEN "MEDIUM"
    ELSE "LOW"

_safe_sub(a, b) == IF IsNaN(a) \/ IsNaN(b) THEN NaN ELSE a - b

_build_match_record(a_later, a_earlier, similarity, confidence, conf_label, years) ==
    LET depth_growth == _safe_sub(a_later.depth_pct, a_earlier.depth_pct)
    IN  [similarity |-> RoundDiv(similarity * 10000, SimScale),
         confidence |-> confidence,
         confidence_label |-> conf_label,
         earlier_joint |-> a_earlier.joint_number,
         earlier_distance |-> a_earlier.corrected_distance,
         earlier_clock |-> a_earlier.clock_hours,
         earlier_depth_pct |-> a_earlier.depth_pct,
         earlier_length_in |-> a_earlier.length_in,
         earlier_width_in |-> a_earlier.width_in,
         earlier_event_type |-> a_earlier.event_type,
         earlier_row_idx |-> a_earlier.source_row_idx,
         later_joint |-> a_later.joint_number,
         later_distance |-> a_later.corrected_distance,
         later_clock |-> a_later.clock_hours,
         later_depth_pct |-> a_later.depth_pct,
         later_length_in |-> a_later.length_in,
         later_width_in |-> a_later.width_in,
         later_event_type |-> a_later.event_type,
         later_row_idx |-> a_later.source_row_idx,
         years_between |-> years,
         depth_growth_pct |-> depth_growth,
         depth_growth_rate |-> IF IsNaN(depth_growth) THEN NaN
                               ELSE RoundDiv(depth_growth * 1000, years)]

_compute_match_stats(matches_df, new_df, missing_df) ==
    LET counts == [total_matches |-> Len(matches_df),
                   new_anomalies |-> Len(new_df),
                   missing_anomalies |-> Len(missing_df)]
        labelled(l) == Len(SelectSeq(matches_df, LAMBDA m : m.confidence_label = l))
    IN  IF Len(matches_df) > 0
        THEN [total_matches |-> counts.total_matches,
              new_anomalies |-> counts.new_anomalies,
              missing_anomalies |-> counts.missing_anomalies,
              high_confidence |-> labelled("HIGH"),
              medium_confidence |-> labelled("MEDIUM"),
              low_confidence |-> labelled("LOW")]
        ELSE counts

----------------------------------------------------------------------------
(* matching.py: match_anomalies *)

\* the solver's cells that pass the "skip poor matches" test of the result loop
KeptPairs(C, chosen) ==
    {p \in chosen :
        ~CostLeq(Cost(0, SimScale - LOW_CONFIDENCE * SubScale), C[p[1]][p[2]])}

UnmatchedIdxShort(n, matched) == SetToSeq((1..(n - 1)) \ matched)

\* [i for i in range(n) if i not in matched]
UnmatchedIdx(n, matched) == SetToSeq((1..n) \ matched)

\* the result dict for one solver outcome `chosen` (a set of <<i, j>> cells)
MatchResult(anom_later, anom_earlier, years, chosen) ==
    LET C == cost_matrix(anom_later, anom_earlier, years)
        counts == candidate_counts(anom_later, anom_earlier)
        kept == KeptPairs(C, chosen)
        matched_later == {p[1] : p \in kept}
        matched_earlier == {p[2] : p \in kept}
        colOf(i) == (CHOOSE p \in kept : p[1] = i)[2]
        record(i) ==
            LET j == colOf(i)
                sim == SimScale * (1 - C[i][j][1]) - C[i][j][2]    \* 1.0 - cost
                a_l == anom_later[i]
                a_e == anom_earlier[j]
                confidence == _compute_confidence(sim, counts[i], a_l, a_e, years)
            IN  _build_match_record(a_l, a_e, sim, confidence,
                                    _classify_confidence(confidence), years)
        order == SetToSeq(matched_later)    \* zip(row_ind, col_ind): rows ascending
        matches_df == [k \in DOMAIN order |-> record(order[k])]
        new_idx == UnmatchedIdx(Len(anom_later), matched_later)
        missing_idx == UnmatchedIdx(Len(anom_earlier), matched_earlier)
        new_df == [k \in DOMAIN new_idx |-> anom_later[new_idx[k]]]
        missing_df == [k \in DOMAIN missing_idx |-> anom_earlier[missing_idx[k]]]
    IN  [matches |-> matches_df,
         new_anomalies |-> new_df,
         missing_anomalies |-> missing_df,
         stats |-> _compute_match_stats(matches_df, new_df, missing_df)]

\* the early return for an empty side
EmptyResult(anom_later, anom_earlier) ==
    [matches |-> <<>>,
     new_anomalies |-> anom_later,
     missing_anomalies |-> anom_earlier,
     stats |-> [total_matches |-> 0]]

----------------------------------------------------------------------------
(* growth.py *)

\* years to the repair threshold, in tenths of a year
_remaining_life(row) ==
    LET rate == row.depth_growth_rate
        current == row.later_depth_pct
    IN  IF IsNaN(rate) \/ IsNaN(current) \/ rate <= 0 THEN NaN
        ELSE LET remaining_capacity == WALL_LOSS_REPAIR_THRESHOLD - current
             IN  IF remaining_capacity <= 0 THEN 0
                 ELSE RoundDiv(remaining_capacity * 1000 * 10, rate)

_classify_growth(rate) ==
    IF IsNaN(rate) THEN "Unknown"
    ELSE IF rate < 0 THEN "Apparent Shrinkage"
    ELSE IF rate = 0 THEN "Stable"
    ELSE IF rate <= 1000 THEN "Low"
    ELSE IF rate <= 3000 THEN "Moderate"
    ELSE IF rate <= MAX_PLAUSIBLE_GROWTH_RATE * 1000 THEN "High"
    ELSE "Severe"

\* the score without the "rate < 0 counts as 0" branch
_compute_risk_score_signed_rate(row) ==
    LET depth == IF IsNaN(row.later_depth_pct) THEN 0 ELSE row.later_depth_pct
        rate == IF IsNaN(row.depth_growth_rate) THEN 0 ELSE row.depth_growth_rate
        unit == 1000 * WALL_LOSS_REPAIR_THRESHOLD * MAX_PLAUSIBLE_GROWTH_RATE
        depth_score == Min(50 * unit, depth * 50 * 1000 * MAX_PLAUSIBLE_GROWTH_RATE)
        rate_score == Min(50 * unit, rate * 50 * WALL_LOSS_REPAIR_THRESHOLD)
    IN  RoundDiv((depth_score + rate_score) * 10, unit)

\* risk score in tenths of a point; the components are in
\* 1/(1000 * WALL_LOSS_REPAIR_THRESHOLD * MAX_PLAUSIBLE_GROWTH_RATE)
_compute_risk_score(row) ==
    LET depth == IF IsNaN(row.later_depth_pct) THEN 0 ELSE row.later_depth_pct
        rate == IF IsNaN(row.depth_growth_rate) \/ row.depth_growth_rate < 0
                THEN 0 ELSE row.depth_growth_rate
        unit == 1000 * WALL_LOSS_REPAIR_THRESHOLD * MAX_PLAUSIBLE_GROWTH_RATE
        depth_score == Min(50 * unit, depth * 50 * 1000 * MAX_PLAUSIBLE_GROWTH_RATE)
        rate_score == Min(50 * unit, rate * 50 * WALL_LOSS_REPAIR_THRESHOLD)
    IN  RoundDiv((depth_score + rate_score) * 10, unit)

_classify_risk(score) ==
    IF IsNaN(score) THEN "Unknown"
    ELSE IF score >= 700 THEN "Critical"
    ELSE IF score >= 500 THEN "High"
    ELSE IF score >= 300 THEN "Medium"
    ELSE "Low"

\* the columns calculate_growth_rates adds to a copy of the match row
ScoredRow(row) ==
    LET risk == _compute_risk_score(row)
    IN  row @@ [remaining_wall_pct |-> 100 - row.later_depth_pct,
                remaining_life_years |-> _remaining_life(row),
                growth_class |-> _classify_growth(row.depth_growth_rate),
                risk_score |-> risk,
                risk_category |-> _classify_risk(risk)]

calculate_growth_rates(matches_df) ==
    IF matches_df = <<>> THEN matches_df
    ELSE [k \in DOMAIN matches_df |-> ScoredRow(matches_df[k])]

----------------------------------------------------------------------------
(* Inputs of the pairwise pipeline *)

LaterPerfect  == Row(5, 10002, 6, 24, 4, 2, "Metal Loss")
LaterShrink   == Row(5, 10002, 6, 10, 4, 2, "Metal Loss")
LaterSpoiler  == Row(5, 9970, 6, 10, 12, 2, "Metal Loss")
LaterBoundary == Row(5, 10030, 6, 50, 10, 2, "Metal Loss")
LaterLow      == Row(6, 10030, 6, 10, 4, 2, "Metal Loss")
LaterNoDepth  == Row(5, 10002, NaN, NaN, 4, 2, "Metal Loss")
LaterNoClock  == Row(5, 10002, NaN, 24, 4, 2, "Metal Loss")

EarlierPerfect == Row(5, 10000, 6, 20, 4, 2, "Metal Loss")
EarlierNext    == Row(5, 10020, 6, 20, 4, 2, "Metal Loss")
EarlierCluster == Row(NaN, 10000, 7, 20, NaN, 2, "Cluster")
EarlierClock   == Row(5, 10000, 9, 20, 4, 2, "Metal Loss")
EarlierDent    == Row(5, 10000, 6, 20, 4, 2, "Dent")
EarlierNoClock == Row(5, 10000, NaN, 20, 4, 2, "Metal Loss")
EarlierFar     == Row(5, 10030, 8, 60, 12, 8, "Metal Loss")
EarlierWeld    == Row(5, 9990, NaN, NaN, NaN, NaN, "Girth Weld")

LaterSheet ==
    << LaterNoDepth, LaterPerfect, LaterNoClock, LaterShrink, LaterSpoiler,
       LaterBoundary, LaterLow >>

EarlierSheet ==
    << EarlierWeld, EarlierPerfect, EarlierPerfect, EarlierNext, EarlierCluster,
       EarlierNoClock, EarlierDent, EarlierFar >>

----------------------------------------------------------------------------
(* The pairwise pipeline: match_anomalies, then calculate_growth_rates *)

InitMultiIdle ==
    /\ mr_runs = <<>>
    /\ mr_results = NoValue
    /\ cache = <<>>
    /\ target_year = 0
    /\ prediction = NoValue
    /\ mpc = "idle"

InitServerIdle ==
    /\ pipeline_progress = NoValue
    /\ req = <<>>
    /\ bg = <<>>
    /\ reader = NoValue

InitBootIdle ==
    /\ config = NoValue
    /\ boot = NoValue

InitDashIdle ==
    /\ dash_matches = <<>>
    /\ dash_runs = <<>>
    /\ segments = NoValue
    /\ interactions = NoValue
    /\ dpc = "idle"

InitAlignIdle ==
    /\ runs = <<>>
    /\ gw_alignment = NoValue
    /\ corrected_runs = NoValue
    /\ apc = "idle"
    /\ align_error = NoValue

Init ==
    /\ run_later \in SubSheets(LaterSheet, MaxLater)
    /\ run_earlier \in SubSheets(EarlierSheet, MaxEarlier)
    /\ years_between \in YEARS_BETWEEN
    /\ assignment = {}
    /\ result = NoValue
    /\ scored = NoValue
    /\ pc = "start"
    /\ InitAlignIdle
    /\ InitMultiIdle
    /\ InitServerIdle
    /\ InitBootIdle
    /\ InitDashIdle

anom_later == get_anomalies(run_later)
anom_earlier == get_anomalies(run_earlier)

\* match_anomalies with an empty side: the early return
MatchAnomaliesEmpty ==
    /\ pc = "start"
    /\ Len(anom_later) = 0 \/ Len(anom_earlier) = 0
    /\ assignment' = {}
    /\ result' = EmptyResult(anom_later, anom_earlier)
    /\ pc' = "matched"
    /\ UNCHANGED <<run_later, run_earlier, years_between, scored>>
    /\ UNCHANGED <<alignVars, multiVars, serverVars, bootVars, dashVars>>

\* match_anomalies: candidates, cost matrix, assignment, filter, unmatched sets
MatchAnomalies ==
    /\ pc = "start"
    /\ Len(anom_later) > 0 /\ Len(anom_earlier) > 0
    /\ \E chosen \in linear_sum_assignment(
                        cost_matrix(anom_later, anom_earlier, years_between),
                        Len(anom_later), Len(anom_earlier)) :
            /\ assignment' = chosen
            /\ result' = MatchResult(anom_later, anom_earlier, years_between, chosen)
    /\ pc' = "matched"
    /\ UNCHANGED <<run_later, run_earlier, years_between, scored>>
    /\ UNCHANGED <<alignVars, multiVars, serverVars, bootVars, dashVars>>

CalculateGrowthRates ==
    /\ pc = "matched"
    /\ scored' = calculate_growth_rates(result.matches)
    /\ pc' = "scored"
    /\ UNCHANGED <<run_later, run_earlier, years_between, assignment, result>>
    /\ UNCHANGED <<alignVars, multiVars, serverVars, bootVars, dashVars>>

Next ==
    \/ MatchAnomaliesEmpty
    \/ MatchAnomalies
    \/ CalculateGrowthRates

Spec == Init /\ [][Next]_vars

----------------------------------------------------------------------------
(* Properties of match_anomalies *)

Matched == pc \in {"matched", "scored"}

TheCost == cost_matrix(anom_later, anom_earlier, years_between)

EmittedPairs == KeptPairs(TheCost, assignment)

\* how often a source row index occurs in a column of a frame
Occurrences(df, idxOf(_), idx) == Cardinality({k \in DOMAIN df : idxOf(df[k]) = idx})

EarlierIdx(m) == m.earlier_row_idx
LaterIdx(m) == m.later_row_idx
SourceIdx(r) == r.source_row_idx

\* C1: in every match_anomalies result no earlier_row_idx and no later_row_idx
\* occurs in more than one match row.
C1_OneToOne ==
    Matched =>
        \A a, b \in DOMAIN result.matches :
            a # b => /\ result.matches[a].earlier_row_idx # result.matches[b].earlier_row_idx
                     /\ result.matches[a].later_row_idx # result.matches[b].later_row_idx

C1_Witness == Matched /\ Len(result.matches) >= 2

InExactlyOne(run, matchIdx(_), unmatched, r) ==
    Occurrences(result.matches, matchIdx, r.source_row_idx)
        + Occurrences(unmatched, SourceIdx, r.source_row_idx) = 1

\* C2 as claimed: every is_anomaly row with a non-missing distance is in
\* exactly one of matches / new_anomalies (later run) and matches /
\* missing_anomalies (earlier run).
C2_PartitionByDistance ==
    Matched =>
        /\ \A k \in DOMAIN run_later :
              (run_later[k].is_anomaly /\ ~IsNaN(run_later[k].log_distance_ft))
                 => InExactlyOne(run_later, LaterIdx, result.new_anomalies, run_later[k])
        /\ \A k \in DOMAIN run_earlier :
              (run_earlier[k].is_anomaly /\ ~IsNaN(run_earlier[k].log_distance_ft))
                 => InExactlyOne(run_earlier, EarlierIdx, result.missing_anomalies,
                                 run_earlier[k])

Matchable(r) == r.is_anomaly /\ ~IsNaN(r.log_distance_ft) /\ ~IsNaN(r.depth_pct)

\* C2 amended: every is_anomaly row with a non-missing distance and a
\* non-missing depth is in exactly one of matches / new_anomalies (later run)
\* and matches / missing_anomalies (earlier run); rows without a depth are in none.
C2_Partition ==
    Matched =>
        /\ \A k \in DOMAIN run_later :
              IF Matchable(run_later[k])
              THEN InExactlyOne(run_later, LaterIdx, result.new_anomalies, run_later[k])
              ELSE Occurrences(result.matches, LaterIdx, run_later[k].source_row_idx)
                    + Occurrences(result.new_anomalies, SourceIdx,
                                  run_later[k].source_row_idx) = 0
        /\ \A k \in DOMAIN run_earlier :
              IF Matchable(run_earlier[k])
              THEN InExactlyOne(run_earlier, EarlierIdx, result.missing_anomalies,
                                run_earlier[k])
              ELSE Occurrences(result.matches, EarlierIdx, run_earlier[k].source_row_idx)
                    + Occurrences(result.missing_anomalies, SourceIdx,
                                  run_earlier[k].source_row_idx) = 0

C2_Witness ==
    /\ Matched
    /\ Len(result.matches) >= 1
    /\ Len(result.new_anomalies) >= 1
    /\ Len(result.missing_anomalies) >= 1

\* C3: every emitted match row passes the three gates (distance difference at
\* most 3.0 ft, circular clock distance at most 1.0 h, compatible types), and
\* no cell the solver chose at the sentinel cost is emitted.
C3_MatchesPassGates ==
    Matched =>
        /\ \A k \in DOMAIN result.matches :
              LET m == result.matches[k]
              IN  /\ Abs(m.later_distance - m.earlier_distance) <= DISTANCE_TOLERANCE_FT
                  /\ clock_distance(m.later_clock, m.earlier_clock) <= CLOCK_TOLERANCE_HOURS
                  /\ types_compatible(m.later_event_type, m.earlier_event_type)
        /\ \A p \in assignment :
              TheCost[p[1]][p[2]] = LARGE_COST =>
                 ~\E k \in DOMAIN result.matches :
                      /\ result.matches[k].later_row_idx = anom_later[p[1]].source_row_idx
                      /\ result.matches[k].earlier_row_idx = anom_earlier[p[2]].source_row_idx

C3_Witness ==
    /\ Matched
    /\ Len(result.matches) >= 1
    /\ \E p \in assignment : TheCost[p[1]][p[2]] = LARGE_COST

PassesGates(a_l, a_e) ==
    /\ Abs(a_l.corrected_distance - a_e.corrected_distance) <= DISTANCE_TOLERANCE_FT
    /\ clock_distance(a_l.clock_hours, a_e.clock_hours) <= CLOCK_TOLERANCE_HOURS
    /\ types_compatible(a_l.event_type, a_e.event_type)

TrueSimilarity(p) == compute_similarity(anom_later[p[1]], anom_earlier[p[2]], years_between)

\* pairs that pass the gates with similarity above the 0.40 cut
AcceptablePairs ==
    {p \in (DOMAIN anom_later) \X (DOMAIN anom_earlier) :
        /\ PassesGates(anom_later[p[1]], anom_earlier[p[2]])
        /\ TrueSimilarity(p) > LOW_CONFIDENCE * SubScale}

RECURSIVE SumOfCosts(_)
SumOfCosts(pairs) ==
    IF pairs = {} THEN 0
    ELSE LET p == CHOOSE q \in pairs : TRUE
         IN  (SimScale - TrueSimilarity(p)) + SumOfCosts(pairs \ {p})

\* C4: no one-to-one set of acceptable pairs of the same size as the returned
\* match set has a strictly smaller total cost (sum of 1 - similarity).
C4_GloballyOptimal ==
    (pc = "matched" /\ Len(anom_later) > 0 /\ Len(anom_earlier) > 0) =>
        \A B \in SUBSET AcceptablePairs :
            (OneToOne(B) /\ Cardinality(B) = Cardinality(EmittedPairs))
                => SumOfCosts(B) >= SumOfCosts(EmittedPairs)

\* C5: a gate-passing pair chosen by the solver is emitted if and only if its
\* similarity is at least 0.40.
C5_CutAtLowConfidence ==
    (pc = "matched") =>
        \A p \in assignment :
            IsCandidate(anom_later[p[1]], anom_earlier[p[2]]) =>
                (p \in EmittedPairs <=> TrueSimilarity(p) >= LOW_CONFIDENCE * SubScale)

----------------------------------------------------------------------------
(* End-to-end scenarios of the pairwise pipeline *)

Scenario(later, earlier, years) ==
    /\ run_later = WithSourceIdx(<<later>>)
    /\ run_earlier = WithSourceIdx(<<earlier>>)
    /\ years_between = years
    /\ pc = "scored"

\* C7 as claimed: the perfect pair yields one match with similarity >= 0.98,
\* label HIGH, depth_growth_rate 0.5, growth_class Low, risk_category Low.
C7_PerfectPairAsClaimed ==
    Scenario(LaterPerfect, EarlierPerfect, 8) =>
        /\ Len(scored) = 1
        /\ scored[1].similarity >= 9800
        /\ scored[1].confidence_label = "HIGH"
        /\ scored[1].depth_growth_rate = 500
        /\ scored[1].growth_class = "Low"
        /\ scored[1].risk_category = "Low"

\* C7 amended: the perfect pair yields one match with similarity 0.95 and
\* confidence 0.98 (label HIGH), depth_growth_rate 0.5, growth_class Low,
\* risk_category Low.
C7_PerfectPair ==
    Scenario(LaterPerfect, EarlierPerfect, 8) =>
        /\ Len(scored) = 1
        /\ scored[1].similarity = 9500
        /\ scored[1].confidence = 9800
        /\ scored[1].confidence_label = "HIGH"
        /\ scored[1].depth_growth_rate = 500
        /\ scored[1].growth_class = "Low"
        /\ scored[1].risk_category = "Low"

C7_Witness == Scenario(LaterPerfect, EarlierPerfect, 8) /\ Len(scored) = 1

\* C8 as claimed: the shrinkage pair (later depth 10) yields no match or a
\* match labelled LOW.
C8_ShrinkageAsClaimed ==
    Scenario(LaterShrink, EarlierPerfect, 8) =>
        \/ Len(result.matches) = 0
        \/ /\ Len(result.matches) = 1
           /\ result.matches[1].confidence_label = "LOW"

\* C8 amended: the shrinkage pair is emitted as one match with similarity
\* 0.7767, depth_growth_rate -1.25 and confidence 0.7857, labelled MEDIUM.
C8_Shrinkage ==
    Scenario(LaterShrink, EarlierPerfect, 8) =>
        /\ Len(result.matches) = 1
        /\ result.matches[1].similarity = 7767
        /\ result.matches[1].depth_growth_rate = -1250
        /\ result.matches[1].confidence = 7857
        /\ result.matches[1].confidence_label = "MEDIUM"

C8_Witness == Scenario(LaterShrink, EarlierPerfect, 8) /\ Len(result.matches) = 1

----------------------------------------------------------------------------
(* Exact values of the float corrected_distance column written by the       *)
(* aligner: num/den tenths of a foot in lowest terms, den > 0; den = 0      *)
(* stands for the non-finite floats (0/0 nan, 1/0 inf, -1/0 -inf).          *)

RECURSIVE GCD(_, _)
GCD(a, b) == IF b = 0 THEN a ELSE GCD(b, a % b)

FloatNaN == [num |-> 0, den |-> 0]

Sign(x) == IF x > 0 THEN 1 ELSE IF x < 0 THEN -1 ELSE 0

Frac(n, d) ==
    IF d = 0 THEN [num |-> Sign(n), den |-> 0]
    ELSE LET g == GCD(Abs(n), Abs(d))
         IN  [num |-> Sign(d) * (n \div g), den |-> Abs(d) \div g]

\* a column value copied as is
AsFloat(x) == IF IsNaN(x) THEN FloatNaN ELSE [num |-> x, den |-> 1]

----------------------------------------------------------------------------
(* data_ingestion.py / alignment.py: girth welds *)

RUN_YEARS == {2007, 2022}   \* the runs handed to the aligner
REFERENCE_YEAR == 2022

\* a raw (not yet aligned) feature row
RawRow(jn, dist, typ, depth) ==
    [joint_number |-> jn, log_distance_ft |-> dist, event_type |-> typ,
     depth_pct |-> depth,
     is_anomaly |-> typ \in ANOMALY_TYPES,
     is_girth_weld |-> typ \in REFERENCE_TYPES,
     source_row_idx |-> 0]

get_girth_welds(df) ==
    SelectSeq(df, LAMBDA r : r.is_girth_weld /\ ~IsNaN(r.joint_number)
                             /\ ~IsNaN(r.log_distance_ft))

\* sort by distance, drop_duplicates(keep="first"), index by joint number:
\* joint -> the smallest weld distance recorded for it
gw_by_year(df) ==
    LET gw == get_girth_welds(df)
        joints == {gw[k].joint_number : k \in DOMAIN gw}
    IN  [jn \in joints |->
            CHOOSE d \in {gw[k].log_distance_ft : k \in {i \in DOMAIN gw : gw[i].joint_number = jn}} :
                \A k \in DOMAIN gw : gw[k].joint_number = jn => d <= gw[k].log_distance_ft]

common_joints(rs) ==
    {jn \in DOMAIN gw_by_year(rs[REFERENCE_YEAR]) :
        \A y \in RUN_YEARS : jn \in DOMAIN gw_by_year(rs[y])}

\* one record per common joint, in joint order, with each run's distance and
\* the delta between the consecutive runs
match_girth_welds(rs) ==
    LET order == SetToSeq(common_joints(rs))
    IN  [k \in DOMAIN order |->
            [joint_number |-> order[k],
             dist |-> [y \in RUN_YEARS |-> gw_by_year(rs[y])[order[k]]],
             delta_2007_2022 |-> gw_by_year(rs[2022])[order[k]]
                                  - gw_by_year(rs[2007])[order[k]]]]

----------------------------------------------------------------------------
(* alignment.py: the piecewise-linear corrector (scipy interp1d) *)

\* interp1d(src_dists, ref_dists, kind="linear", fill_value="extrapolate",
\*          assume_sorted=True): the object keeps the two arrays as given
build_distance_corrector_swapped(gw, source_year, reference_year) ==
    [x |-> [k \in DOMAIN gw |-> gw[k].dist[reference_year]],
     y |-> [k \in DOMAIN gw |-> gw[k].dist[source_year]]]

build_distance_corrector(gw, source_year, reference_year) ==
    [x |-> [k \in DOMAIN gw |-> gw[k].dist[source_year]],
     y |-> [k \in DOMAIN gw |-> gw[k].dist[reference_year]]]

\* numpy.searchsorted(x, v): binary search for the leftmost insertion point
\* (0-based), run on the array as it is
RECURSIVE BinSearch(_, _, _, _)
BinSearch(x, v, lo, hi) ==
    IF lo >= hi THEN lo
    ELSE LET mid == lo + (hi - lo) \div 2
         IN  IF x[mid + 1] < v THEN BinSearch(x, v, mid + 1, hi)
             ELSE BinSearch(x, v, lo, mid)

\* the keys are searched in order; each search starts from bounds left by the
\* previous one (lower bound kept when the key grew, upper bound widened by
\* one otherwise), which equals a fresh search only when x is sorted
RECURSIVE SearchFrom(_, _, _, _, _, _)
SearchFrom(x, keys, k, last_key_val, min_idx, max_idx) ==
    IF k > Len(keys) THEN << >>
    ELSE LET key_val == keys[k]
             lo == IF last_key_val < key_val THEN min_idx ELSE 0
             hi == IF last_key_val < key_val THEN Len(x)
                   ELSE IF max_idx < Len(x) THEN max_idx + 1 ELSE Len(x)
             found == BinSearch(x, key_val, lo, hi)
         IN  << found >> \o SearchFrom(x, keys, k + 1, key_val, found, found)

searchsorted(x, keys) ==
    IF Len(keys) = 0 THEN << >>
    ELSE SearchFrom(x, keys, 1, keys[1], 0, Len(x))

\* interp1d._call_linear with extrapolation: the segment is picked by
\* searchsorted clipped to [1, n-1]; y_new = slope * (x_new - x_lo) + y_lo.
\* Needs Len(corrector.x) >= 2.
call_linear(corrector, x_new, x_new_index) ==
    LET n == Len(corrector.x)
        idx == Max(1, Min(n - 1, x_new_index))
        x_lo == corrector.x[idx]
        x_hi == corrector.x[idx + 1]
        y_lo == corrector.y[idx]
        y_hi == corrector.y[idx + 1]
    IN  IF x_hi = x_lo
        THEN \* slope is inf, -inf or nan
             IF y_hi = y_lo \/ x_new = x_lo THEN FloatNaN
             ELSE Frac(Sign(y_hi - y_lo) * Sign(x_new - x_lo), 0)
        ELSE Frac((y_hi - y_lo) * (x_new - x_lo) + y_lo * (x_hi - x_lo), x_hi - x_lo)

\* how interp1d treats a one-point table depends on the scipy release: older
\* ones raise ValueError, newer ones build it and every call yields nan
InterpOutcomes(gw) ==
    IF Len(gw) >= 2 THEN {"ok"}
    ELSE IF Len(gw) = 1 THEN {"raise", "nan"}
    ELSE {"raise"}

----------------------------------------------------------------------------
(* alignment.py: apply_distance_correction *)

AddColumn(row, value) == [corrected_distance |-> value] @@ row

\* corrector(df.loc[valid, "log_distance_ft"].values) written back to the
\* valid rows, nan to the others
CorrectedColumn(corrector, df, outcome) ==
    LET valid == SelectSeq([k \in DOMAIN df |-> k],
                           LAMBDA k : ~IsNaN(df[k].log_distance_ft))
        x_new == [i \in DOMAIN valid |-> df[valid[i]].log_distance_ft]
        x_new_indices == searchsorted(corrector.x, x_new)
    IN  [k \in DOMAIN df |->
            IF IsNaN(df[k].log_distance_ft) \/ outcome = "nan" THEN FloatNaN
            ELSE LET i == CHOOSE i \in DOMAIN valid : valid[i] = k
                 IN  call_linear(corrector, x_new[i], x_new_indices[i])]

\* the loop body for one run, with the default reference year hard-wired to
\* the first run year
CorrectRunFirstYear(df, year, gw, reference_year, outcome) ==
    IF year = 2007
    THEN [k \in DOMAIN df |-> AddColumn(df[k], AsFloat(df[k].log_distance_ft))]
    ELSE LET corrector == build_distance_corrector(gw, year, 2007)
             column == CorrectedColumn(corrector, df, outcome)
         IN  [k \in DOMAIN df |-> AddColumn(df[k], column[k])]

\* the loop body for one run (outcome is "ok" or "nan")
CorrectRun(df, year, gw, reference_year, outcome) ==
    IF year = reference_year
    THEN [k \in DOMAIN df |-> AddColumn(df[k], AsFloat(df[k].log_distance_ft))]
    ELSE LET corrector == build_distance_corrector(gw, year, reference_year)
             column == CorrectedColumn(corrector, df, outcome)
         IN  [k \in DOMAIN df |-> AddColumn(df[k], column[k])]

apply_distance_correction(rs, gw, reference_year, outcome) ==
    [y \in DOMAIN rs |-> CorrectRun(rs[y], y, gw, reference_year, outcome)]

----------------------------------------------------------------------------
(* The aligner: match_girth_welds, then apply_distance_correction *)

Sheet2007 ==
    << RawRow(10, 1000, "Girth Weld", NaN),
       RawRow(20, 2000, "Girth Weld", NaN),
       RawRow(30, 3000, "Girth Weld", NaN),
       RawRow(20, 2100, "Girth Weld", NaN),
       RawRow(30, 1800, "Girth Weld", NaN),
       RawRow(30, 2000, "Girth Weld", NaN),
       RawRow(10, 1500, "Metal Loss", 20),
       RawRow(30, 3500, "Metal Loss", 35),
       RawRow(20, NaN, "Metal Loss", 15) >>

Sheet2022 ==
    << RawRow(10, 1020, "Girth Weld", NaN),
       RawRow(20, 2050, "Girth Weld", NaN),
       RawRow(30, 3090, "Girth Weld", NaN),
       RawRow(10, 1535, "Metal Loss", 24),
       RawRow(20, NaN, "Dent", 5) >>

InitMatchIdle ==
    /\ run_later = <<>>
    /\ run_earlier = <<>>
    /\ years_between = 8
    /\ assignment = {}
    /\ result = NoValue
    /\ scored = NoValue
    /\ pc = "idle"

InitAlign ==
    /\ runs \in {[y \in RUN_YEARS |-> IF y = 2007 THEN a ELSE b] :
                    a \in SubSheets(Sheet2007, MaxSheetRows),
                    b \in SubSheets(Sheet2022, MaxSheetRows)}
    /\ gw_alignment = NoValue
    /\ corrected_runs = NoValue
    /\ apc = "start"
    /\ align_error = NoValue
    /\ InitMatchIdle
    /\ InitMultiIdle
    /\ InitServerIdle
    /\ InitBootIdle
    /\ InitDashIdle

\* match_girth_welds with no joint common to all runs: the delta column is
\* computed on a frame without columns and raises KeyError
MatchGirthWeldsFails ==
    /\ apc = "start"
    /\ common_joints(runs) = {}
    /\ apc' = "failed"
    /\ align_error' = "KeyError"
    /\ UNCHANGED <<runs, gw_alignment, corrected_runs>>
    /\ UNCHANGED <<matchVars, multiVars, serverVars, bootVars, dashVars>>

MatchGirthWelds ==
    /\ apc = "start"
    /\ common_joints(runs) # {}
    /\ gw_alignment' = match_girth_welds(runs)
    /\ apc' = "welds_matched"
    /\ UNCHANGED <<runs, corrected_runs, align_error>>
    /\ UNCHANGED <<matchVars, multiVars, serverVars, bootVars, dashVars>>

\* apply_distance_correction raises out of build_distance_corrector
ApplyDistanceCorrectionFails ==
    /\ apc = "welds_matched"
    /\ "raise" \in InterpOutcomes(gw_alignment)
    /\ apc' = "failed"
    /\ align_error' = "ValueError"
    /\ UNCHANGED <<runs, gw_alignment, corrected_runs>>
    /\ UNCHANGED <<matchVars, multiVars, serverVars, bootVars, dashVars>>

ApplyDistanceCorrection ==
    /\ apc = "welds_matched"
    /\ \E outcome \in InterpOutcomes(gw_alignment) \ {"raise"} :
          corrected_runs' = apply_distance_correction(runs, gw_alignment,
                                                      REFERENCE_YEAR, outcome)
    /\ apc' = "aligned"
    /\ UNCHANGED <<runs, gw_alignment, align_error>>
    /\ UNCHANGED <<matchVars, multiVars, serverVars, bootVars, dashVars>>

NextAlign ==
    \/ MatchGirthWeldsFails
    \/ MatchGirthWelds
    \/ ApplyDistanceCorrectionFails
    \/ ApplyDistanceCorrection

SpecAlign == InitAlign /\ [][NextAlign]_vars

----------------------------------------------------------------------------
(* Properties of the aligner *)

DriftTable ==
    << [joint_number |-> 10, dist |-> [y \in RUN_YEARS |-> IF y = 2007 THEN 1000 ELSE 1020],
        delta_2007_2022 |-> 20],
       [joint_number |-> 20, dist |-> [y \in RUN_YEARS |-> IF y = 2007 THEN 2000 ELSE 2050],
        delta_2007_2022 |-> 50],
       [joint_number |-> 30, dist |-> [y \in RUN_YEARS |-> IF y = 2007 THEN 3000 ELSE 3090],
        delta_2007_2022 |-> 90] >>

DriftScenario ==
    /\ apc = "aligned"
    /\ gw_alignment = DriftTable
    /\ \E k \in DOMAIN runs[2007] : runs[2007][k].log_distance_ft = 1500

\* C9 as claimed: with welds at joints {10,20,30}, 2007 distances
\* [100,200,300] and 2022 distances [102,205,309], a 2007 feature at raw
\* distance 150 ft gets corrected_distance 103.5 ft.
C9_DriftAsClaimed ==
    DriftScenario =>
        \A k \in DOMAIN corrected_runs[2007] :
            corrected_runs[2007][k].log_distance_ft = 1500
                => corrected_runs[2007][k].corrected_distance = [num |-> 1035, den |-> 1]

\* C9 amended: in that scenario the 2007 feature at raw distance 150 ft gets
\* corrected_distance 153.5 ft (102 + 0.5 * (205 - 102)).
C9_Drift ==
    DriftScenario =>
        \A k \in DOMAIN corrected_runs[2007] :
            corrected_runs[2007][k].log_distance_ft = 1500
                => corrected_runs[2007][k].corrected_distance = [num |-> 1535, den |-> 1]

C9_Witness == DriftScenario

\* C10: whenever apply_distance_correction returns, every row of the
\* reference-year run has corrected_distance equal to its log_distance_ft
\* (missing stays missing), whatever the girth-weld table holds, and every
\* run keeps its rows with all other columns unchanged.
C10_ReferenceIdentity ==
    apc = "aligned" =>
        /\ \A k \in DOMAIN runs[REFERENCE_YEAR] :
              LET raw == runs[REFERENCE_YEAR][k].log_distance_ft
                  cd == corrected_runs[REFERENCE_YEAR][k].corrected_distance
              IN  IF IsNaN(raw) THEN cd = FloatNaN
                  ELSE cd.den = 1 /\ cd.num = raw
        /\ \A y \in RUN_YEARS :
              /\ DOMAIN corrected_runs[y] = DOMAIN runs[y]
              /\ \A k \in DOMAIN runs[y] :
                    /\ DOMAIN corrected_runs[y][k]
                          = DOMAIN runs[y][k] \cup {"corrected_distance"}
                    /\ \A col \in DOMAIN runs[y][k] :
                          corrected_runs[y][k][col] = runs[y][k][col]

C10_Witness ==
    /\ apc = "aligned"
    /\ \E k \in DOMAIN runs[REFERENCE_YEAR] :
          ~IsNaN(runs[REFERENCE_YEAR][k].log_distance_ft)
    /\ \E k \in DOMAIN runs[REFERENCE_YEAR] :
          IsNaN(runs[REFERENCE_YEAR][k].log_distance_ft)
    /\ \E k \in DOMAIN gw_alignment : gw_alignment[k].delta_2007_2022 # 0

AlignFinished == apc \in {"aligned", "failed"}

\* C11: after apply_distance_correction succeeds on a table of two or more
\* anchors, for every row of every run corrected_distance is NaN if and only
\* if log_distance_ft is missing, also when two anchors share the same
\* source-year distance.
C11_NaNIffMissing ==
    (apc = "aligned" /\ Len(gw_alignment) >= 2) =>
        \A y \in RUN_YEARS : \A k \in DOMAIN runs[y] :
            (corrected_runs[y][k].corrected_distance = FloatNaN)
                <=> IsNaN(runs[y][k].log_distance_ft)

AnchorsStrictlyIncreasing(gw, year) ==
    \A k \in 1 .. (Len(gw) - 1) : gw[k].dist[year] < gw[k + 1].dist[year]

\* C12: when the common anchors, in joint order, do not have strictly
\* increasing distances in the non-reference year 2007, alignment fails with
\* non_monotone_anchors and no corrected distances are produced.
C12_NonMonotoneFails ==
    (AlignFinished /\ common_joints(runs) # {}
        /\ ~AnchorsStrictlyIncreasing(match_girth_welds(runs), 2007)) =>
            /\ apc = "failed"
            /\ align_error = "non_monotone_anchors"
            /\ corrected_runs = NoValue

\* C13: with zero or one joint common to all runs, alignment fails with
\* insufficient_anchors and no aligned runs are produced.
C13_InsufficientAnchorsFails ==
    (AlignFinished /\ Cardinality(common_joints(runs)) < 2) =>
        /\ apc = "failed"
        /\ align_error = "insufficient_anchors"
        /\ corrected_runs = NoValue

----------------------------------------------------------------------------
(* multi_run.py: run_full_analysis and chain_three_runs *)

MaxRunRows == 2     \* rows per run handed to run_full_analysis

CHAIN_YEARS == << 2007, 2015, 2022 >>

\* YEARS_BETWEEN.get((y_early, y_later), y_later - y_early)
YearsBetween(y_early, y_later) ==
    IF << y_early, y_later >> = << 2007, 2015 >> THEN 8
    ELSE IF << y_early, y_later >> = << 2015, 2022 >> THEN 7
    ELSE IF << y_early, y_later >> = << 2007, 2022 >> THEN 15
    ELSE y_later - y_early

\* the results match_anomalies can return for two runs: one per outcome of
\* the solver
match_anomalies(later, earlier, years) ==
    LET a_l == get_anomalies(later)
        a_e == get_anomalies(earlier)
    IN  IF Len(a_l) = 0 \/ Len(a_e) = 0 THEN {EmptyResult(a_l, a_e)}
        ELSE {MatchResult(a_l, a_e, years, chosen) :
                chosen \in linear_sum_assignment(cost_matrix(a_l, a_e, years),
                                                 Len(a_l), Len(a_e))}

\* the record of one triple (keys written for y1, y2, y3 = 2007, 2015, 2022)
TripleRecord(m12, m23) ==
    LET total_depth_growth == _safe_sub(m23.later_depth_pct, m12.earlier_depth_pct)
        total_years == YearsBetween(2007, 2022)
    IN  [lifecycle |-> "Tracked All 3 Runs",
         joint_2007 |-> m12.earlier_joint,
         distance_2007 |-> m12.earlier_distance,
         clock_2007 |-> m12.earlier_clock,
         depth_2007 |-> m12.earlier_depth_pct,
         length_2007 |-> m12.earlier_length_in,
         width_2007 |-> m12.earlier_width_in,
         row_idx_2007 |-> m12.earlier_row_idx,
         joint_2015 |-> m23.earlier_joint,
         distance_2015 |-> m23.earlier_distance,
         clock_2015 |-> m23.earlier_clock,
         depth_2015 |-> m23.earlier_depth_pct,
         length_2015 |-> m23.earlier_length_in,
         width_2015 |-> m23.earlier_width_in,
         row_idx_2015 |-> m23.earlier_row_idx,
         joint_2022 |-> m23.later_joint,
         distance_2022 |-> m23.later_distance,
         clock_2022 |-> m23.later_clock,
         depth_2022 |-> m23.later_depth_pct,
         length_2022 |-> m23.later_length_in,
         width_2022 |-> m23.later_width_in,
         row_idx_2022 |-> m23.later_row_idx,
         confidence_12 |-> m12.confidence,
         confidence_23 |-> m23.confidence,
         min_confidence |-> Min(m12.confidence, m23.confidence),
         total_depth_growth |-> total_depth_growth,
         total_years |-> total_years,
         \* (total_depth_growth / total_years).round(3), in 1/1000
         overall_growth_rate |-> IF IsNaN(total_depth_growth) THEN NaN
                                 ELSE RoundDiv(total_depth_growth * 1000, total_years)]

_build_lifecycle_summary(pairwise, triple_df) ==
    LET m12 == pairwise[<< 2007, 2015 >>]
        m23 == pairwise[<< 2015, 2022 >>]
    IN  << [Category |-> "Tracked All 3 Runs", Count |-> Len(triple_df)],
           [Category |-> "New in 2015 (tracked to 2022)",
            Count |-> Len(m23.matches) - Len(triple_df)],
           [Category |-> "New in 2022", Count |-> Len(m23.new_anomalies)],
           [Category |-> "Disappeared after 2007", Count |-> Len(m12.missing_anomalies)],
           [Category |-> "Disappeared after 2015", Count |-> Len(m23.missing_anomalies)] >>

\* y2_row = m12["later_row_idx"]: the key of the y2_to_y1 lookup (the first
\* definition joins on the wrong column of the first pair)
ChainKeyEarlier(m12) == m12.earlier_row_idx

ChainKey(m12) == m12.later_row_idx

chain_three_runs(pairwise) ==
    LET matches_12 == pairwise[<< 2007, 2015 >>].matches
        matches_23 == pairwise[<< 2015, 2022 >>].matches
    IN  IF Len(matches_12) = 0 \/ Len(matches_23) = 0
        THEN [triple_matches |-> << >>, lifecycle_summary |-> << >>]
        ELSE LET keys == {ChainKey(matches_12[k]) : k \in DOMAIN matches_12}
                 \* a later row of the loop overwrites an earlier one
                 y2_to_y1(y2_row) ==
                     matches_12[Max_of({k \in DOMAIN matches_12 :
                                           ChainKey(matches_12[k]) = y2_row})]
                 chained == SelectSeq(matches_23,
                                      LAMBDA m23 : m23.earlier_row_idx \in keys)
                 triple_df == [k \in DOMAIN chained |->
                                 TripleRecord(y2_to_y1(chained[k].earlier_row_idx),
                                              chained[k])]
             IN  [triple_matches |-> triple_df,
                  lifecycle_summary |-> _build_lifecycle_summary(pairwise, triple_df)]

----------------------------------------------------------------------------
(* growth.py: predict_growth_trends *)

\* The columns added to one triple: the linregress slope over the valid depth
\* points rounded to 4 places (in 1/10000 %/yr) and the projections rounded
\* to 1 place (in 1/10 %).  With x the years since 2007,
\*   slope = (n Sxy - Sx Sy) / (n Sxx - Sx^2),  intercept = (Sy - slope Sx) / n.
\* linear_r2 and is_accelerating are left out.
TrendColumns(row) ==
    LET depths == << row.depth_2007, row.depth_2015, row.depth_2022 >>
        xs == << 0, 8, 15 >>
        valid == SetToSeq({i \in 1..3 : ~IsNaN(depths[i])})
        n == Len(valid)
        Sx == SumSeq([k \in DOMAIN valid |-> xs[valid[k]]])
        Sy == SumSeq([k \in DOMAIN valid |-> depths[valid[k]]])
        Sxy == SumSeq([k \in DOMAIN valid |-> xs[valid[k]] * depths[valid[k]]])
        Sxx == SumSeq([k \in DOMAIN valid |-> xs[valid[k]] * xs[valid[k]]])
        num == n * Sxy - Sx * Sy
        den == n * Sxx - Sx * Sx
        predicted(year) ==
            RoundDiv(10 * (Sy * den + num * (n * (year - 2007) - Sx)), n * den)
    IN  IF n >= 2
        THEN [linear_rate |-> RoundDiv(num * 10000, den),
              predicted_2030 |-> predicted(2030),
              predicted_2035 |-> predicted(2035)]
        ELSE [linear_rate |-> NaN, predicted_2030 |-> NaN, predicted_2035 |-> NaN]

predict_growth_trends(multi_run_matches) ==
    [k \in DOMAIN multi_run_matches |->
        multi_run_matches[k] @@ TrendColumns(multi_run_matches[k])]

----------------------------------------------------------------------------
(* multi_run.py: run_full_analysis; server.py: startup *)

\* the results run_full_analysis can return for three runs
run_full_analysis(rs) ==
    {[pairwise |-> (<< 2007, 2015 >> :> r12) @@ (<< 2015, 2022 >> :> r23),
      direct_first_last |-> direct,
      chain |-> LET chain == chain_three_runs(
                        (<< 2007, 2015 >> :> r12) @@ (<< 2015, 2022 >> :> r23))
                IN  IF Len(chain.triple_matches) > 0
                    THEN [chain EXCEPT !.triple_matches = predict_growth_trends(@)]
                    ELSE chain] :
        r12 \in match_anomalies(rs[2015], rs[2007], YearsBetween(2007, 2015)),
        r23 \in match_anomalies(rs[2022], rs[2015], YearsBetween(2015, 2022)),
        direct \in match_anomalies(rs[2022], rs[2007], YearsBetween(2007, 2022))}

\* "Add growth metrics to pairwise matches"
WithGrowthMetrics(results) ==
    [results EXCEPT !.pairwise =
        [key \in DOMAIN results.pairwise |->
            IF Len(results.pairwise[key].matches) > 0
            THEN [results.pairwise[key] EXCEPT !.matches = calculate_growth_rates(@)]
            ELSE results.pairwise[key]]]

----------------------------------------------------------------------------
(* virtual_ili.py: predict_future_inspection *)

\* d.get(key, {})
DictGet(d, key) == IF key \in DOMAIN d THEN d[key] ELSE << >>

BASE_YEAR == 2022

\* the first triple on the joint of the row, if any:
\*   tm = triple[triple["joint_2022"] == j];  tm.iloc[0]
TripleOnJoint(triple, row) ==
    SelectSeq(triple, LAMBDA t : ~IsNaN(row.later_joint)
                                 /\ t.joint_2022 = row.later_joint)

\* if years_forward <= 0 (the first definition lets the base year through)
YearsForwardInvalidOff(years_forward) == years_forward < 0

YearsForwardInvalid(years_forward) == years_forward <= 0

\* the rate the loop settles on for one match row, in 1/10000 %/yr, and the
\* is_triple flag
RefinedRate(triple, row) ==
    LET tm == TripleOnJoint(triple, row)
    IN  IF Len(triple) > 0 /\ Len(tm) > 0 /\ ~IsNaN(tm[1].linear_rate)
        THEN [rate |-> tm[1].linear_rate, is_triple |-> TRUE]
        ELSE [rate |-> 10 * row.depth_growth_rate, is_triple |-> FALSE]

\* rows the loop skips
Predictable(triple, row) ==
    /\ ~IsNaN(row.later_depth_pct)
    /\ ~IsNaN(row.depth_growth_rate)
    /\ RefinedRate(triple, row).rate >= 0

\* one prediction record; depths in 1/10 %, growth_rate in 1/1000 %/yr
PredictionRecord(triple, row, years_forward) ==
    LET refined == RefinedRate(triple, row)
        raw == row.later_depth_pct * 10000 + refined.rate * years_forward
        predicted_depth == Max(0, Min(1000000, raw))          \* 1/10000 %
        remaining_capacity == WALL_LOSS_REPAIR_THRESHOLD * 10000 - predicted_depth
    IN  [joint |-> row.later_joint,
         distance_ft |-> row.later_distance,
         clock |-> row.later_clock,
         current_depth_2022 |-> row.later_depth_pct * 10,
         growth_rate |-> RoundDiv(refined.rate, 10),
         predicted_depth |-> RoundDiv(predicted_depth, 1000),
         predicted_risk |-> IF predicted_depth >= 700000 THEN "Critical"
                            ELSE IF predicted_depth >= 500000 THEN "High"
                            ELSE IF predicted_depth >= 300000 THEN "Medium"
                            ELSE "Low",
         years_to_80pct |-> IF refined.rate > 0
                            THEN IF remaining_capacity > 0
                                 THEN RoundDiv(10 * remaining_capacity, refined.rate)
                                 ELSE 0
                            ELSE NaN,
         event_type |-> row.later_event_type,
         confidence |-> row.confidence_label,
         is_triple_tracked |-> refined.is_triple]

CountOf(df, Test(_)) == Len(SelectSeq(df, Test))

\* the summary, threshold_crossings and all_predictions parts of the result
PredictionResult(pred_df, target_year_, years_forward) ==
    LET depth(k) == pred_df[k].predicted_depth
        crossing(thresh) ==
            CountOf(pred_df, LAMBDA p : p.current_depth_2022 < thresh * 10
                                        /\ p.predicted_depth >= thresh * 10)
        risk(label) == CountOf(pred_df, LAMBDA p : p.predicted_risk = label)
    IN  [summary |->
            [target_year |-> target_year_,
             years_forward |-> years_forward,
             total_predicted |-> Len(pred_df),
             mean_predicted_depth |->
                RoundDiv(SumSeq([k \in DOMAIN pred_df |-> depth(k)]), Len(pred_df)),
             max_predicted_depth |-> Max_of({depth(k) : k \in DOMAIN pred_df}),
             critical_count |-> risk("Critical"),
             high_count |-> risk("High"),
             medium_count |-> risk("Medium"),
             low_count |-> risk("Low"),
             needing_repair_by_target |->
                CountOf(pred_df, LAMBDA p :
                    p.predicted_depth >= WALL_LOSS_REPAIR_THRESHOLD * 10)],
         threshold_crossings |->
            [crossing_50pct |-> crossing(50), crossing_60pct |-> crossing(60),
             crossing_70pct |-> crossing(70), crossing_80pct |-> crossing(80)],
         all_predictions |-> pred_df]

predict_future_inspection(cache_, target_year_) ==
    LET results == DictGet(cache_, "results")
        pairwise == DictGet(results, "pairwise")
        chain == DictGet(results, "chain")
        triple == DictGet(chain, "triple_matches")
        \* (2015, 2022), else the last key of the dict
        key == IF << 2015, 2022 >> \in DOMAIN pairwise THEN << 2015, 2022 >>
               ELSE CHOOSE k \in DOMAIN pairwise :
                        \A o \in DOMAIN pairwise : o[2] <= k[2]
        matches == DictGet(pairwise[key], "matches")
        years_forward == target_year_ - BASE_YEAR
        kept == SelectSeq(matches, LAMBDA row : Predictable(triple, row))
        predictions == [k \in DOMAIN kept |->
                           PredictionRecord(triple, kept[k], years_forward)]
    IN  IF DOMAIN pairwise = {} THEN [error |-> "No match data available"]
        ELSE IF Len(matches) = 0 THEN [error |-> "No matches to extrapolate"]
        ELSE IF YearsForwardInvalid(years_forward)
             THEN [error |-> "Target year must be after 2022"]
        ELSE IF Len(predictions) = 0
             THEN [error |-> "No predictions could be generated"]
        ELSE PredictionResult(predictions, target_year_, years_forward)

----------------------------------------------------------------------------
(* The multi-run pipeline: run_full_analysis, growth metrics into the       *)
(* cache, then a virtual-ILI request                                        *)

\* anomaly A seen in all three runs, B on the same joint, C on another joint
A2007 == Row(5, 10000, 6, 16, 4, 2, "Metal Loss")
B2007 == Row(5, 10020, 6, 19, 4, 2, "Metal Loss")
C2007 == Row(7, 10100, 6, 30, 4, 2, "Metal Loss")

W2015 == Row(5, 9990, NaN, NaN, NaN, NaN, "Girth Weld")
A2015 == Row(5, 10001, 6, 20, 4, 2, "Metal Loss")
B2015 == Row(5, 10021, 6, 20, 4, 2, "Metal Loss")

A2022 == Row(5, 10002, 6, 25, 4, 2, "Metal Loss")
B2022 == Row(5, 10022, 6, 22, 4, 2, "Metal Loss")
C2022 == Row(7, 10101, 6, 28, 4, 2, "Metal Loss")

Aligned2007 == << A2007, B2007, C2007 >>
Aligned2015 == << W2015, A2015, B2015 >>
Aligned2022 == << A2022, B2022, C2022 >>

TargetYears == {2020, 2022, 2030}

InitMulti ==
    /\ mr_runs \in {(2007 :> r1) @@ (2015 :> r2) @@ (2022 :> r3) :
                      r1 \in SubSheets(Aligned2007, MaxRunRows),
                      r2 \in SubSheets(Aligned2015, MaxRunRows),
                      r3 \in SubSheets(Aligned2022, MaxRunRows)}
    /\ mr_results = NoValue
    /\ cache = << >>
    /\ target_year \in TargetYears
    /\ prediction = NoValue
    /\ mpc = "start"
    /\ InitMatchIdle
    /\ InitAlignIdle
    /\ InitServerIdle
    /\ InitBootIdle
    /\ InitDashIdle

\* startup: results = run_full_analysis(corrected_runs)
RunFullAnalysis ==
    /\ mpc = "start"
    /\ mr_results' \in run_full_analysis(mr_runs)
    /\ mpc' = "analysed"
    /\ UNCHANGED << mr_runs, cache, target_year, prediction >>
    /\ UNCHANGED << matchVars, alignVars, serverVars, bootVars, dashVars>>

\* startup: growth metrics added to every pairwise match set, results cached
CacheResults ==
    /\ mpc = "analysed"
    /\ cache' = [results |-> WithGrowthMetrics(mr_results)]
    /\ mpc' = "cached"
    /\ UNCHANGED << mr_runs, mr_results, target_year, prediction >>
    /\ UNCHANGED << matchVars, alignVars, serverVars, bootVars, dashVars>>

\* GET /api/virtual-ili/{year} on the cache as it is (empty or filled)
PredictFutureInspection ==
    /\ mpc \in {"start", "cached"}
    /\ prediction' = predict_future_inspection(cache, target_year)
    /\ mpc' = "predicted"
    /\ UNCHANGED << mr_runs, mr_results, cache, target_year >>
    /\ UNCHANGED << matchVars, alignVars, serverVars, bootVars, dashVars>>

NextMulti ==
    \/ RunFullAnalysis
    \/ CacheResults
    \/ PredictFutureInspection

SpecMulti == InitMulti /\ [][NextMulti]_vars

----------------------------------------------------------------------------
(* Properties of the multi-run pipeline *)

Analysed == mpc \in {"analysed", "cached"}

M12 == mr_results.pairwise[<< 2007, 2015 >>]
M23 == mr_results.pairwise[<< 2015, 2022 >>]
Triples == mr_results.chain.triple_matches

\* the M23 matches whose 2015 row is also the later row of an M12 match
ChainedM23 ==
    {k \in DOMAIN M23.matches :
        \E j \in DOMAIN M12.matches :
            M12.matches[j].later_row_idx = M23.matches[k].earlier_row_idx}

TripleFromParents(t, m12, m23) ==
    /\ t.row_idx_2015 = m12.later_row_idx
    /\ t.row_idx_2015 = m23.earlier_row_idx
    /\ t.row_idx_2007 = m12.earlier_row_idx
    /\ t.joint_2007 = m12.earlier_joint
    /\ t.distance_2007 = m12.earlier_distance
    /\ t.clock_2007 = m12.earlier_clock
    /\ t.depth_2007 = m12.earlier_depth_pct
    /\ t.length_2007 = m12.earlier_length_in
    /\ t.width_2007 = m12.earlier_width_in
    /\ t.row_idx_2022 = m23.later_row_idx
    /\ t.joint_2022 = m23.later_joint
    /\ t.distance_2022 = m23.later_distance
    /\ t.clock_2022 = m23.later_clock
    /\ t.depth_2022 = m23.later_depth_pct
    /\ t.length_2022 = m23.later_length_in
    /\ t.width_2022 = m23.later_width_in

\* C14: chain_three_runs emits exactly one triple for each M23 match whose
\* earlier_row_idx is the later_row_idx of some M12 match and no other
\* triple; each triple's middle row index is the later_row_idx of its M12
\* parent and the earlier_row_idx of its M23 parent, its 2007 fields come
\* from the M12 parent and its 2022 fields from the M23 parent.
C14_ChainJoin ==
    Analysed =>
        /\ Len(Triples) = Cardinality(ChainedM23)
        /\ \A k \in ChainedM23 :
              Cardinality({t \in DOMAIN Triples :
                  /\ Triples[t].row_idx_2022 = M23.matches[k].later_row_idx
                  /\ Triples[t].row_idx_2015 = M23.matches[k].earlier_row_idx}) = 1
        /\ \A t \in DOMAIN Triples :
              \E j \in DOMAIN M12.matches : \E k \in ChainedM23 :
                  TripleFromParents(Triples[t], M12.matches[j], M23.matches[k])

C14_Witness ==
    /\ Analysed
    /\ Len(Triples) >= 1
    /\ Len(M23.matches) > Len(Triples)
    /\ \E t \in DOMAIN Triples : Triples[t].row_idx_2007 # Triples[t].row_idx_2015

\* C15: for any M12 and M23, also when either has no matches, the lifecycle
\* summary has exactly five categories in order: tracked-all-3 = |triples|,
\* new-in-y2-tracked-to-y3 = |M23.matches| - |triples|, new-in-y3 =
\* |M23.new_anomalies|, disappeared-after-y1 = |M12.missing_anomalies|,
\* disappeared-after-y2 = |M23.missing_anomalies|.
C15_LifecycleFiveCounts ==
    Analysed =>
        LET summary == mr_results.chain.lifecycle_summary
        IN  /\ Len(summary) = 5
            /\ summary[1].Count = Len(Triples)
            /\ summary[2].Count = Len(M23.matches) - Len(Triples)
            /\ summary[3].Count = Len(M23.new_anomalies)
            /\ summary[4].Count = Len(M12.missing_anomalies)
            /\ summary[5].Count = Len(M23.missing_anomalies)

Predicted == mpc = "predicted"

CachedPairwise == DictGet(DictGet(cache, "results"), "pairwise")

CachedTriples ==
    DictGet(DictGet(DictGet(cache, "results"), "chain"), "triple_matches")

\* no pairwise match set to extrapolate from
NoPairwiseBase ==
    \/ DOMAIN CachedPairwise = {}
    \/ Len(CachedPairwise[<< 2015, 2022 >>].matches) = 0

\* C18: predict_future_inspection returns an error result and no predictions
\* whenever the target year is at most 2022 or no pairwise match set is
\* available, whatever the cache holds.
C18_PredictionUnavailable ==
    (Predicted /\ (target_year <= BASE_YEAR \/ NoPairwiseBase)) =>
        /\ "error" \in DOMAIN prediction
        /\ "all_predictions" \notin DOMAIN prediction

\* a request for the base year itself on a cache whose latest pair has a
\* match with non-negative growth
C18_Witness ==
    /\ Predicted
    /\ target_year = BASE_YEAR
    /\ ~NoPairwiseBase
    /\ \E k \in DOMAIN CachedPairwise[<< 2015, 2022 >>].matches :
          CachedPairwise[<< 2015, 2022 >>].matches[k].depth_growth_rate >= 0
    /\ "error" \in DOMAIN prediction

\* C19: a prediction is flagged is_triple_tracked and uses the three-run
\* slope as its rate if and only if the anomaly itself (its 2022 row) is in a
\* triple with a defined slope; otherwise it keeps its own pairwise
\* depth_growth_rate, also when another anomaly on its joint is tracked.
C19_TripleRateOwnAnomaly ==
    (Predicted /\ "all_predictions" \in DOMAIN prediction) =>
        \A i \in DOMAIN prediction.all_predictions :
            LET p == prediction.all_predictions[i]
                matches == CachedPairwise[<< 2015, 2022 >>].matches
                m == matches[CHOOSE k \in DOMAIN matches :
                                /\ matches[k].later_distance = p.distance_ft
                                /\ matches[k].later_clock = p.clock]
                own == SelectSeq(CachedTriples,
                                 LAMBDA t : t.row_idx_2022 = m.later_row_idx
                                            /\ ~IsNaN(t.linear_rate))
            IN  IF Len(own) > 0
                THEN p.is_triple_tracked
                     /\ p.growth_rate = RoundDiv(own[1].linear_rate, 10)
                ELSE ~p.is_triple_tracked
                     /\ p.growth_rate = m.depth_growth_rate

----------------------------------------------------------------------------
(* server.py: the result cache, /api/run-pipeline and a reading endpoint *)

NumRequests == 2    \* concurrent /api/run-pipeline requests
MaxReads == 2       \* GET /api/pipeline-view requests served one after another

Requests == 1 .. NumRequests

CacheKeys == {"runs", "summary", "gw_alignment", "corrected_runs", "results",
              "alignment_stats"}

\* a bundle is named by the request whose re-run built it; 0 is the bundle
\* built by startup()
StartupBundle == 0
NotRead == -1

InitServer ==
    /\ cache = [k \in CacheKeys |-> StartupBundle]
    /\ pipeline_progress = [status |-> "idle", step_number |-> 0, error |-> "none"]
    /\ req = [r \in Requests |-> "idle"]
    /\ bg = [r \in Requests |-> "none"]
    /\ reader = [pc |-> "idle", corrected_runs |-> NotRead, results |-> NotRead,
                 served |-> 0]
    /\ mr_runs = << >>
    /\ mr_results = NoValue
    /\ target_year = 0
    /\ prediction = NoValue
    /\ mpc = "idle"
    /\ InitMatchIdle
    /\ InitAlignIdle
    /\ InitBootIdle
    /\ InitDashIdle

restOfServer == << matchVars, alignVars, mr_runs, mr_results, target_year,
                   prediction, mpc, bootVars, dashVars >>

\* api_run_pipeline: pipeline_progress is rebound to a fresh "running" dict
\* and the daemon thread is started
StartRerun(r) ==
    /\ pipeline_progress' = [status |-> "running", step_number |-> 0, error |-> "none"]
    /\ bg' = [bg EXCEPT ![r] = "started"]
    /\ req' = [req EXCEPT ![r] = "started"]

\* api_run_pipeline up to its await: the status test, then either the upload
\* is read without suspending the coroutine (the handler runs to its end) or
\* `await file.read()` hands control back to the event loop
ApiRunPipeline(r) ==
    /\ req[r] = "idle"
    /\ IF pipeline_progress.status = "running"
       THEN /\ req' = [req EXCEPT ![r] = "already_running"]
            /\ UNCHANGED << pipeline_progress, bg >>
       ELSE \/ StartRerun(r)
            \/ /\ req' = [req EXCEPT ![r] = "awaiting_read"]
               /\ UNCHANGED << pipeline_progress, bg >>
    /\ UNCHANGED << cache, reader >>
    /\ UNCHANGED restOfServer

\* api_run_pipeline resumed after the await
ApiRunPipelineResume(r) ==
    /\ req[r] = "awaiting_read"
    /\ StartRerun(r)
    /\ UNCHANGED << cache, reader >>
    /\ UNCHANGED restOfServer

\* steps 1-5 writing the loaded runs into the cache as they go
BgComputeInPlace(r) ==
    /\ bg[r] = "started"
    /\ bg' = [bg EXCEPT ![r] = "computed"]
    /\ pipeline_progress' = [pipeline_progress EXCEPT !.step_number = 5]
    /\ cache' = [cache EXCEPT !["runs"] = r]
    /\ UNCHANGED << req, reader >>
    /\ UNCHANGED restOfServer

\* _run_pipeline_background, steps 1-5: the new bundle is computed in locals
BgCompute(r) ==
    /\ bg[r] = "started"
    /\ bg' = [bg EXCEPT ![r] = "computed"]
    /\ pipeline_progress' = [pipeline_progress EXCEPT !.step_number = 5]
    /\ UNCHANGED << cache, req, reader >>
    /\ UNCHANGED restOfServer

\* _run_pipeline_background: one of steps 1-5, or compute_alignment_stats of
\* step 6, raises; the except clause records the message
BgError(r) ==
    /\ bg[r] \in {"started", "computed"}
    /\ bg' = [bg EXCEPT ![r] = "failed"]
    /\ pipeline_progress' =
          [pipeline_progress EXCEPT
              !.status = "error", !.error = "str(e)",
              !.step_number = IF bg[r] = "computed" THEN 6 ELSE @]
    /\ UNCHANGED << cache, req, reader >>
    /\ UNCHANGED restOfServer

\* _run_pipeline_background, step 6: cache.update(new_cache)
BgSwap(r) ==
    /\ bg[r] = "computed"
    /\ cache' = [k \in CacheKeys |-> r]
    /\ bg' = [bg EXCEPT ![r] = "swapped"]
    /\ pipeline_progress' = [pipeline_progress EXCEPT !.step_number = 6]
    /\ UNCHANGED << req, reader >>
    /\ UNCHANGED restOfServer

\* the thread ends without writing the status
BgCompleteSilent(r) ==
    /\ bg[r] = "swapped"
    /\ bg' = [bg EXCEPT ![r] = "done"]
    /\ UNCHANGED << cache, pipeline_progress, req, reader >>
    /\ UNCHANGED restOfServer

\* _run_pipeline_background: status "completed", the thread ends
BgComplete(r) ==
    /\ bg[r] = "swapped"
    /\ bg' = [bg EXCEPT ![r] = "done"]
    /\ pipeline_progress' = [pipeline_progress EXCEPT !.status = "completed"]
    /\ UNCHANGED << cache, req, reader >>
    /\ UNCHANGED restOfServer

\* get_pipeline_view: corrected_runs = cache["corrected_runs"]
ReadCorrectedRuns ==
    /\ reader.pc = "idle"
    /\ reader' = [reader EXCEPT !.pc = "read_corrected_runs",
                                !.corrected_runs = cache["corrected_runs"]]
    /\ UNCHANGED << cache, pipeline_progress, req, bg >>
    /\ UNCHANGED restOfServer

\* get_pipeline_view: results = cache["results"], then the response is built
\* from the two locals
ReadResults ==
    /\ reader.pc = "read_corrected_runs"
    /\ reader' = [reader EXCEPT !.pc = "responded", !.results = cache["results"]]
    /\ UNCHANGED << cache, pipeline_progress, req, bg >>
    /\ UNCHANGED restOfServer

\* the next GET /api/pipeline-view
NextRead ==
    /\ reader.pc = "responded"
    /\ reader.served + 1 < MaxReads
    /\ reader' = [pc |-> "idle", corrected_runs |-> NotRead, results |-> NotRead,
                  served |-> reader.served + 1]
    /\ UNCHANGED << cache, pipeline_progress, req, bg >>
    /\ UNCHANGED restOfServer

NextServer ==
    \/ \E r \in Requests : ApiRunPipeline(r)
    \/ \E r \in Requests : ApiRunPipelineResume(r)
    \/ \E r \in Requests : BgCompute(r)
    \/ \E r \in Requests : BgError(r)
    \/ \E r \in Requests : BgSwap(r)
    \/ \E r \in Requests : BgComplete(r)
    \/ ReadCorrectedRuns
    \/ ReadResults
    \/ NextRead

SpecServer == InitServer /\ [][NextServer]_vars

\* a started daemon thread is scheduled until it ends
BgThread(r) == BgCompute(r) \/ BgError(r) \/ BgSwap(r) \/ BgComplete(r)

SpecServerFair == SpecServer /\ \A r \in Requests : WF_vars(BgThread(r))

----------------------------------------------------------------------------
(* Properties of the server *)

\* C16: every reader that reads several cache keys sees them from one bundle,
\* also while a background re-run swaps the cache.
C16_ConsistentSnapshot ==
    reader.pc = "responded" => reader.corrected_runs = reader.results

InFlight(r) == bg[r] \in {"started", "computed", "swapped"}

\* C17: at most one pipeline re-run is in flight at any time, for any
\* interleaving of concurrent /api/run-pipeline requests.
C17_SingleRerun ==
    Cardinality({r \in Requests : InFlight(r)}) <= 1

\* C20: for every pair of runs, also when either side has no anomalies, the
\* stats block of match_anomalies has the counts total_matches, new_anomalies
\* and missing_anomalies, each equal to the size of the returned set.
C20_StatsCounts ==
    Matched =>
        /\ {"total_matches", "new_anomalies", "missing_anomalies"}
              \subseteq DOMAIN result.stats
        /\ result.stats.total_matches = Len(result.matches)
        /\ result.stats.new_anomalies = Len(result.new_anomalies)
        /\ result.stats.missing_anomalies = Len(result.missing_anomalies)

----------------------------------------------------------------------------
(* Properties of candidate generation and of the unmatched sets *)

\* C23: for every later-run anomaly, every earlier-run anomaly that passes the
\* three exact gates lies within the search radius of the KD-tree query, so
\* it is scored and entered in the cost matrix as a candidate.
C23_RadiusIsSuperset ==
    (pc = "matched") =>
        \A i \in DOMAIN anom_later : \A j \in DOMAIN anom_earlier :
            PassesGates(anom_later[i], anom_earlier[j])
                => /\ query_ball_point(anom_later[i], anom_earlier[j])
                   /\ TheCost[i][j] # LARGE_COST

UnmatchedLater == (DOMAIN anom_later) \ {p[1] : p \in EmittedPairs}
UnmatchedEarlier == (DOMAIN anom_earlier) \ {p[2] : p \in EmittedPairs}

\* C25: the returned match set is maximal: no anomaly of new_anomalies and
\* anomaly of missing_anomalies pass the three gates together with a
\* similarity above 0.40.
C25_Maximal ==
    (pc = "matched" /\ Len(anom_later) > 0 /\ Len(anom_earlier) > 0) =>
        ~\E i \in UnmatchedLater : \E j \in UnmatchedEarlier :
            <<i, j>> \in AcceptablePairs

NoClock(r) == r.is_anomaly /\ IsNaN(r.clock_hours)

CandidatesOf(i) ==
    {j \in DOMAIN anom_earlier : TheCost[i][j] # LARGE_COST}

\* C28 as claimed: an anomaly row without a clock position is in no match, is
\* in new_anomalies (later run) or missing_anomalies (earlier run), and is no
\* candidate of any anomaly.
C28_NoClockUnmatchedAsClaimed ==
    Matched =>
        /\ \A k \in DOMAIN run_later :
              NoClock(run_later[k]) =>
                 /\ Occurrences(result.matches, LaterIdx, run_later[k].source_row_idx) = 0
                 /\ Occurrences(result.new_anomalies, SourceIdx,
                                run_later[k].source_row_idx) = 1
        /\ \A k \in DOMAIN run_earlier :
              NoClock(run_earlier[k]) =>
                 /\ Occurrences(result.matches, EarlierIdx, run_earlier[k].source_row_idx) = 0
                 /\ Occurrences(result.missing_anomalies, SourceIdx,
                                run_earlier[k].source_row_idx) = 1
        /\ \A i \in DOMAIN anom_later : \A j \in CandidatesOf(i) :
              ~NoClock(anom_later[i]) /\ ~NoClock(anom_earlier[j])

\* C28 amended: an anomaly row without a clock position that has a distance
\* and a depth is in no match, is in new_anomalies (later run) or
\* missing_anomalies (earlier run) exactly once, has no candidate and is no
\* candidate of any anomaly; one without a depth is in neither set.
C28_NoClockUnmatched ==
    Matched =>
        /\ \A k \in DOMAIN run_later :
              NoClock(run_later[k]) =>
                 /\ Occurrences(result.matches, LaterIdx, run_later[k].source_row_idx) = 0
                 /\ Occurrences(result.new_anomalies, SourceIdx,
                                run_later[k].source_row_idx)
                        = IF Matchable(run_later[k]) THEN 1 ELSE 0
        /\ \A k \in DOMAIN run_earlier :
              NoClock(run_earlier[k]) =>
                 /\ Occurrences(result.matches, EarlierIdx, run_earlier[k].source_row_idx) = 0
                 /\ Occurrences(result.missing_anomalies, SourceIdx,
                                run_earlier[k].source_row_idx)
                        = IF Matchable(run_earlier[k]) THEN 1 ELSE 0
        /\ \A i \in DOMAIN anom_later : \A j \in CandidatesOf(i) :
              ~NoClock(anom_later[i]) /\ ~NoClock(anom_earlier[j])

\* a clockless anomaly on each side, next to a pair that is matched
C28_Witness ==
    /\ Matched
    /\ Len(result.matches) >= 1
    /\ \E k \in DOMAIN result.new_anomalies : NoClock(result.new_anomalies[k])
    /\ \E k \in DOMAIN result.missing_anomalies : NoClock(result.missing_anomalies[k])

----------------------------------------------------------------------------
(* growth.py on its own: calculate_growth_rates over match rows *)

\* later_depth_pct values (% wall) and depth_growth_rate values (1/1000 %/yr)
DepthValues == {NaN, -5, 0, 40, 79, 80, 81, 100}
RateValues == {NaN, -1250, 0, 500, 2500, 5000, 6250}

GrowthInputRow(depth, rate) == [later_depth_pct |-> depth, depth_growth_rate |-> rate]

\* a two-row matches frame handed to calculate_growth_rates
InitGrowth ==
    /\ run_later = <<>>
    /\ run_earlier = <<>>
    /\ years_between \in YEARS_BETWEEN
    /\ assignment = {}
    /\ \E d1, d2 \in DepthValues : \E r1, r2 \in RateValues :
          result = [matches |-> << GrowthInputRow(d1, r1), GrowthInputRow(d2, r2) >>]
    /\ scored = NoValue
    /\ pc = "matched"
    /\ InitAlignIdle
    /\ InitMultiIdle
    /\ InitServerIdle
    /\ InitBootIdle
    /\ InitDashIdle

NextGrowth == CalculateGrowthRates

SpecGrowth == InitGrowth /\ [][NextGrowth]_vars

\* a missing or negative rate counts as 0
EffectiveRate(row) ==
    IF IsNaN(row.depth_growth_rate) \/ row.depth_growth_rate < 0
    THEN 0 ELSE row.depth_growth_rate

\* C22: for any two scored rows, if the later depth and the growth rate (a
\* missing or negative rate counting as 0) of the first are each at most those
\* of the second, the first risk_score is at most the second; for a
\* non-negative depth the score is within [0, 100].
C22_RiskMonotone ==
    (pc = "scored") =>
        /\ \A a, b \in DOMAIN scored :
              (/\ ~IsNaN(scored[a].later_depth_pct)
               /\ ~IsNaN(scored[b].later_depth_pct)
               /\ scored[a].later_depth_pct <= scored[b].later_depth_pct
               /\ EffectiveRate(scored[a]) <= EffectiveRate(scored[b]))
                 => scored[a].risk_score <= scored[b].risk_score
        /\ \A a \in DOMAIN scored :
              (~IsNaN(scored[a].later_depth_pct) /\ scored[a].later_depth_pct >= 0)
                 => (0 <= scored[a].risk_score /\ scored[a].risk_score <= 1000)

\* a negative rate next to a zero rate at the same depth, and a row at the cap
C22_Witness ==
    /\ pc = "scored"
    /\ scored[1].later_depth_pct = 40 /\ scored[1].depth_growth_rate = -1250
    /\ scored[1].risk_score = 250
    /\ scored[2].later_depth_pct = 100 /\ scored[2].depth_growth_rate = 6250
    /\ scored[2].risk_score = 1000

----------------------------------------------------------------------------
(* integrity_analytics.py: segment_risk_analysis and interaction_assessment *)
(* later_wall_thickness is in tenths of an inch; the avg_growth_rate and    *)
(* risk_score columns of a segment and the depth statistics of a cluster    *)
(* are left out.                                                            *)

MaxMatchRows == 3       \* rows of the matches frame handed to the analytics

SEGMENT_LENGTH_FT == 10000      \* segment_length_ft = 1000.0
DEFAULT_WALL_THICKNESS == 3     \* 0.3 in

\* a scored match row, with the columns the analytics read
DashRow(dist, depth, len, wt, rate) ==
    ScoredRow([later_distance |-> dist, later_depth_pct |-> depth,
               later_length_in |-> len, later_wall_thickness |-> wt,
               depth_growth_rate |-> rate])

\* df.sort_values("later_distance").reset_index(drop=True)
sort_values(df) ==
    LET rank(k) == 1 + Cardinality({m \in DOMAIN df :
                                       df[m].later_distance < df[k].later_distance})
    IN  [r \in DOMAIN df |-> df[CHOOSE k \in DOMAIN df : rank(k) = r]]

\* latest_run["corrected_distance"].max(), NaN skipped
max_dist(latest_run) ==
    Max_of({latest_run[k].corrected_distance : k \in
               {m \in DOMAIN latest_run : ~IsNaN(latest_run[m].corrected_distance)}})

\* the anomaly list of segment_risk_analysis: distance, depth, risk_category
SegmentAnomalies(matches_df, latest_run) ==
    IF matches_df = <<>>
    THEN LET raw == SelectSeq(latest_run, LAMBDA r : r.is_anomaly)
         IN  [k \in DOMAIN raw |-> [distance |-> raw[k].corrected_distance,
                                    depth |-> raw[k].depth_pct,
                                    risk_category |-> "Unknown"]]
    ELSE [k \in DOMAIN matches_df |-> [distance |-> matches_df[k].later_distance,
                                       depth |-> matches_df[k].later_depth_pct,
                                       risk_category |-> matches_df[k].risk_category]]

segment_risk_analysis(matches_df, corrected_runs_, segment_length_ft) ==
    LET latest_year == Max_of(DOMAIN corrected_runs_)
        latest_run == corrected_runs_[latest_year]
        \* int(np.ceil(max_dist / segment_length_ft))
        n_segments == (max_dist(latest_run) + segment_length_ft - 1) \div segment_length_ft
        anom == SegmentAnomalies(matches_df, latest_run)
        segment(i) ==
            LET start == (i - 1) * segment_length_ft
                end == start + segment_length_ft
                seg_anom == SelectSeq(anom, LAMBDA a : a.distance >= start /\ a.distance < end)
                depths == {seg_anom[k].depth : k \in DOMAIN seg_anom} \ {NaN}
            IN  [segment |-> i, start_ft |-> start, end_ft |-> end,
                 anomaly_count |-> Len(seg_anom),
                 max_depth_pct |-> IF depths = {} THEN 0 ELSE Max_of(depths),
                 critical_count |-> Len(SelectSeq(seg_anom,
                                          LAMBDA a : a.risk_category = "Critical"))]
    IN  [i \in 1..n_segments |-> segment(i)]

\* threshold_ft = (6 * wt) / 12.0, in 1/240 ft
threshold_ft(row_i) ==
    LET wt == IF IsNaN(row_i.later_wall_thickness) \/ row_i.later_wall_thickness <= 0
              THEN DEFAULT_WALL_THICKNESS ELSE row_i.later_wall_thickness
    IN  12 * wt

\* clear_spacing = spacing - length_i / 12.0, in 1/240 ft, with the length
\* of the row the cluster starts from
clear_spacing(row_i, next_dist, last_dist) ==
    LET length_i == IF IsNaN(row_i.later_length_in) THEN 0 ELSE row_i.later_length_in
    IN  24 * (next_dist - last_dist) - 10 * length_i

\* the while loop: the last position that joins the cluster started at i
RECURSIVE ChainForward(_, _, _, _)
ChainForward(df, i, j, last_dist) ==
    IF j > Len(df) THEN j - 1
    ELSE IF clear_spacing(df[i], df[j].later_distance, last_dist) <= threshold_ft(df[i])
         THEN ChainForward(df, i, j + 1, df[j].later_distance)
         ELSE j - 1

Severity(max_depth, n) ==
    IF max_depth >= 60 \/ n >= 4 THEN "HIGH"
    ELSE IF max_depth >= 40 \/ n >= 3 THEN "MEDIUM"
    ELSE "LOW"

\* the for loop over the sorted frame, from position i on
RECURSIVE InteractionLoop(_, _, _, _)
InteractionLoop(df, i, used, found) ==
    IF i > Len(df) THEN found
    ELSE IF i \in used THEN InteractionLoop(df, i + 1, used, found)
    ELSE LET last == ChainForward(df, i, i + 1, df[i].later_distance)
             cluster == i..last
         IN  IF Cardinality(cluster) >= 2
             THEN InteractionLoop(df, i + 1, used \cup cluster,
                     Append(found,
                        [cluster_id |-> Len(found) + 1,
                         cluster |-> cluster,
                         anomaly_count |-> Cardinality(cluster),
                         start_distance_ft |-> df[i].later_distance,
                         end_distance_ft |-> df[last].later_distance,
                         severity |-> Severity(
                             Max_of({df[k].later_depth_pct : k \in cluster}),
                             Cardinality(cluster))]))
             ELSE InteractionLoop(df, i + 1, used, found)

\* matches_df[...].dropna(subset=["later_distance", "later_depth_pct"])
InteractionFrame(matches_df) ==
    sort_values(SelectSeq(matches_df, LAMBDA m : ~IsNaN(m.later_distance)
                                                 /\ ~IsNaN(m.later_depth_pct)))

interaction_assessment(matches_df) ==
    IF matches_df = <<>> THEN <<>>
    ELSE LET df == InteractionFrame(matches_df)
         IN  IF Len(df) < 2 THEN <<>>
             ELSE InteractionLoop(df, 1, {}, <<>>)

\* matched later-run anomalies (sheet order is not distance order)
MatchSheet ==
    << DashRow(20000, 30, 4, NaN, 1000),
       DashRow(9997, 20, 2, NaN, 0),
       DashRow(10000, 45, 24, 3, 2500),
       DashRow(10005, 70, 2, 0, 6250),
       DashRow(500, 10, 4, 5, NaN) >>

\* rows of the latest run that are in no match: girth welds and a new anomaly
RunWeldA == Row(20, 20000, NaN, NaN, NaN, NaN, "Girth Weld")
RunWeldB == Row(25, 25000, NaN, NaN, NaN, NaN, "Girth Weld")
RunNewAnomaly == Row(15, 15000, 6, 35, 4, 2, "Metal Loss")

MatchFrames ==
    {Pick(MatchSheet, I) :
        I \in {J \in SUBSET DOMAIN MatchSheet : Cardinality(J) <= MaxMatchRows}}

\* the latest run: the later side of every match and the rows in no match
LatestRun(matches_df, extras) ==
    [k \in DOMAIN matches_df |->
        Row(NaN, matches_df[k].later_distance, NaN, matches_df[k].later_depth_pct,
            matches_df[k].later_length_in, NaN, "Metal Loss")]
    \o extras

InitDash ==
    /\ dash_matches \in MatchFrames
    /\ \E E \in SUBSET {1, 2, 3} :
          LET extras == Pick(<< RunWeldA, RunWeldB, RunNewAnomaly >>, E)
          IN  /\ Len(dash_matches) + Len(extras) > 0
              /\ dash_runs = [y \in {2015, 2022} |->
                                IF y = 2022 THEN LatestRun(dash_matches, extras)
                                ELSE <<>>]
    /\ segments = NoValue
    /\ interactions = NoValue
    /\ dpc = "start"
    /\ InitMatchIdle
    /\ InitAlignIdle
    /\ InitMultiIdle
    /\ InitServerIdle
    /\ InitBootIdle

restOfDash == << matchVars, alignVars, multiVars, serverVars, bootVars >>

SegmentRiskAnalysis ==
    /\ dpc = "start"
    /\ segments' = segment_risk_analysis(dash_matches, dash_runs, SEGMENT_LENGTH_FT)
    /\ dpc' = "segmented"
    /\ UNCHANGED << dash_matches, dash_runs, interactions >>
    /\ UNCHANGED restOfDash

InteractionAssessment ==
    /\ dpc = "segmented"
    /\ interactions' = interaction_assessment(dash_matches)
    /\ dpc' = "assessed"
    /\ UNCHANGED << dash_matches, dash_runs, segments >>
    /\ UNCHANGED restOfDash

NextDash ==
    \/ SegmentRiskAnalysis
    \/ InteractionAssessment

SpecDash == InitDash /\ [][NextDash]_vars

----------------------------------------------------------------------------
(* Properties of the integrity analytics *)

Assessed == dpc = "assessed"

SortedMatches == InteractionFrame(dash_matches)

\* the joining rule as stated: the clear spacing takes the length of the
\* successor itself
JoinsByOwnLength(df, seed, prev, succ) ==
    LET own == IF IsNaN(df[succ].later_length_in) THEN 0 ELSE df[succ].later_length_in
    IN  24 * (df[succ].later_distance - df[prev].later_distance) - 10 * own
            <= threshold_ft(df[seed])

ClusterOf(k) == {c \in Range(interactions) : k \in c.cluster}

\* C24: walking the anomalies by increasing distance, a successor joins the
\* current cluster exactly when (its distance - the distance of the last member
\* added) - (its own length_in / 12) <= 6 * wall_thickness / 12 ft; the walk
\* stops at the first successor that fails, only clusters of two or more are
\* emitted, and no anomaly is in two emitted clusters.
C24_InteractionRule ==
    (Assessed /\ Len(dash_matches) >= 2) =>
        LET df == SortedMatches
        IN  /\ \A c \in Range(interactions) :
                  LET first == Min_of(c.cluster)
                      last == Max_of(c.cluster)
                  IN  /\ c.anomaly_count >= 2
                      /\ c.cluster = first..last
                      /\ \A k \in (first + 1)..last : JoinsByOwnLength(df, first, k - 1, k)
                      /\ last < Len(df) => ~JoinsByOwnLength(df, first, last, last + 1)
            /\ \A k \in DOMAIN df :
                  /\ Cardinality(ClusterOf(k)) <= 1
                  /\ (ClusterOf(k) = {} /\ k < Len(df))
                        => ~JoinsByOwnLength(df, k, k, k + 1)

MatchedInRange ==
    {k \in DOMAIN dash_matches :
        /\ dash_matches[k].later_distance >= 0
        /\ dash_matches[k].later_distance <= max_dist(dash_runs[2022])}

\* C27: every matched anomaly with later_distance in [0, max corrected distance
\* of the latest run] is counted in exactly one segment: the anomaly_count
\* values sum to the number of such anomalies, also when one lies exactly at a
\* maximum that is a multiple of the segment length.
C27_SegmentsCountAll ==
    (dpc \in {"segmented", "assessed"} /\ dash_matches # <<>>) =>
        SumSeq([i \in DOMAIN segments |-> segments[i].anomaly_count])
            = Cardinality(MatchedInRange)

----------------------------------------------------------------------------
(* server.py startup() under a configuration: config.py is imported as it   *)
(* is written, and the pipeline runs match_anomalies with its constants.    *)
(* The runs have one anomaly each.                                          *)

\* the values a config.py may hold: the shipped ones, other weights, and
\* tolerances with the sign reversed
Configs ==
    [WEIGHT_DISTANCE : {WEIGHT_DISTANCE, WEIGHT_DISTANCE + 10},
     WEIGHT_CLOCK : {WEIGHT_CLOCK, WEIGHT_CLOCK - 10},
     WEIGHT_DEPTH : {WEIGHT_DEPTH},
     WEIGHT_DIMENSIONS : {WEIGHT_DIMENSIONS},
     WEIGHT_TYPE : {WEIGHT_TYPE, WEIGHT_TYPE + 10},
     DISTANCE_TOLERANCE_FT : {DISTANCE_TOLERANCE_FT, -DISTANCE_TOLERANCE_FT},
     CLOCK_TOLERANCE_HOURS : {CLOCK_TOLERANCE_HOURS, -CLOCK_TOLERANCE_HOURS}]

\* match_anomalies on one later and one earlier anomaly with the constants of
\* cfg: radius query, gates, cost, the 1 x 1 assignment and the similarity cut
match_anomalies_under(cfg, a_later, a_earlier, years) ==
    LET radius == Max(cfg.DISTANCE_TOLERANCE_FT, 20)
        dd == a_later.corrected_distance - a_earlier.corrected_distance
        in_ball == /\ Abs(dd) <= radius
                   /\ dd * dd * 10000
                        + clock_to_trig_sqdist(a_later.clock_hours, a_earlier.clock_hours)
                      <= radius * radius * 10000
        candidate == /\ in_ball
                     /\ ~(Abs(dd) > cfg.DISTANCE_TOLERANCE_FT)
                     /\ ~(clock_distance(a_later.clock_hours, a_earlier.clock_hours)
                            > cfg.CLOCK_TOLERANCE_HOURS)
                     /\ types_compatible(a_later.event_type, a_earlier.event_type)
        sim == similarity_under(cfg, a_later, a_earlier, years)
        \* cost_matrix[i, j] >= 1.0 - LOW_CONFIDENCE: skipped
        kept == candidate /\ ~(SimScale - sim >= SimScale - LOW_CONFIDENCE * SubScale)
    IN  [matches |-> IF kept
                     THEN << [similarity |-> RoundDiv(sim * 10000, SimScale),
                              later_distance |-> a_later.corrected_distance,
                              earlier_distance |-> a_earlier.corrected_distance] >>
                     ELSE <<>>,
         new_anomalies |-> IF kept THEN <<>> ELSE << a_later >>,
         missing_anomalies |-> IF kept THEN <<>> ELSE << a_earlier >>]

InitBoot ==
    /\ config \in Configs
    /\ boot \in [pc : {"start"}, error : {"none"},
                 a_later : {LaterPerfect, LaterShrink, LaterBoundary},
                 a_earlier : {EarlierPerfect, EarlierNext},
                 results : {NoValue}]
    /\ InitMatchIdle
    /\ InitAlignIdle
    /\ InitMultiIdle
    /\ InitServerIdle
    /\ InitDashIdle

\* startup(): load, align, analyse, cache; no statement reads the
\* configuration other than the matcher itself
Startup ==
    /\ boot.pc = "start"
    /\ \E years \in YEARS_BETWEEN :
          boot' = [boot EXCEPT
                     !.results = match_anomalies_under(config, boot.a_later,
                                                       boot.a_earlier, years),
                     !.pc = "ready"]
    /\ UNCHANGED config
    /\ UNCHANGED << matchVars, alignVars, multiVars, serverVars, dashVars >>

NextBoot == Startup

SpecBoot == InitBoot /\ [][NextBoot]_vars

WeightsSum(cfg) ==
    cfg.WEIGHT_DISTANCE + cfg.WEIGHT_CLOCK + cfg.WEIGHT_DEPTH
        + cfg.WEIGHT_DIMENSIONS + cfg.WEIGHT_TYPE

InvalidConfig(cfg) ==
    \/ WeightsSum(cfg) # 100
    \/ cfg.DISTANCE_TOLERANCE_FT < 0
    \/ cfg.CLOCK_TOLERANCE_HOURS < 0

\* C21: with a configuration whose weights do not sum to 1.0 or that has a
\* negative tolerance, startup reports a configuration error and does not run
\* matching.
C21_ConfigValidated ==
    (boot.pc = "ready" /\ InvalidConfig(config)) =>
        /\ boot.error = "configuration error"
        /\ boot.results = NoValue

----------------------------------------------------------------------------
(* Properties of the background re-run *)

\* C26: a re-run that raises replaces no key of the cache (the raising step
\* leaves the cache as it is and the re-run has written none of its keys), and
\* the status becomes "error" with the error message.
C26_ErrorLeavesCache ==
    /\ [](\A r \in Requests :
            bg[r] = "failed" => \A k \in CacheKeys : cache[k] # r)
    /\ [][\A r \in Requests :
            (bg[r] # "failed" /\ bg'[r] = "failed") =>
                /\ cache' = cache
                /\ pipeline_progress'.status = "error"
                /\ pipeline_progress'.error # "none"]_vars

\* a re-run failed at step 6 and the cache still is the startup bundle
C26_Witness ==
    /\ \E r \in Requests : bg[r] = "failed"
    /\ pipeline_progress.status = "error"
    /\ pipeline_progress.step_number = 6
    /\ pipeline_progress.error = "str(e)"
    /\ \A k \in CacheKeys : cache[k] = StartupBundle

\* C29: once a re-run is accepted (status "running", thread started) the
\* status eventually is "completed" or "error".
C29_RerunTerminates ==
    (pipeline_progress.status = "running")
        ~> (pipeline_progress.status \in {"completed", "error"})

\* a re-run went through to the end, and a later request was accepted
C29_Witness ==
    /\ \E r \in Requests : bg[r] = "done"
    /\ \E r \in Requests : bg[r] = "failed"
    /\ pipeline_progress.status \in {"completed", "error"}

\* C30: while the status reads "completed" the cache holds the bundle of a
\* finished re-run and no background re-run is still going to replace it.
C30_CompletedIsFinal ==
    (pipeline_progress.status = "completed") =>
        /\ \E r \in Requests : bg[r] = "done" /\ \A k \in CacheKeys : cache[k] = r
        /\ \A r \in Requests : bg[r] \notin {"started", "computed"}

====
